---- MODULE Spec2Model ----
(***************************************************************************)
(* Wallet-integrated expense ledger of the Expense-Tracker repository:     *)
(* DatabaseManager (src/src/database.py) over its SQLite tables users,     *)
(* wallets and expenses.  Each public method is one action; the SQL        *)
(* statements of a method are applied in order to a pending copy of the    *)
(* tables, which is committed or rolled back as the method does.           *)
(*                                                                         *)
(* Amounts and balances are REAL columns; the model draws them from small  *)
(* sets of integers, on which the REAL arithmetic of the code is exact.    *)
(***************************************************************************)
EXTENDS Integers, Sequences, FiniteSets, TLC

(***************************************************************************)
(* Bounds of the model.                                                    *)
(***************************************************************************)
MaxUsers    == 2    \* user ids that callers pass are 1..MaxUsers
MaxExpenses == 2    \* expense rows ever inserted (AUTOINCREMENT never reuses)
MaxAmount   == 2    \* largest amount a caller passes
MaxBalance  == 2    \* largest balance a caller passes to set_wallet_balances
MaxCalls    == 4    \* length of the call sequences explored

UserIds    == 1..MaxUsers
ExpenseIds == 1..MaxExpenses

\* Amounts reaching save_expense / update_expense.  The manual forms bound
\* the amount below by 0.01 (main.py:151,317); the parsed path only requires
\* float(amount) to succeed (gemini_client.py:89), so a negative amount
\* reaches the ledger as well as the positive ones.
Amounts == {-1} \cup (1..MaxAmount)

\* Payment methods the callers pass (main.py:148,314; gemini_client.py:87).
Methods == {"UPI", "Cash"}

\* Balances passed to set_wallet_balances (no check in database.py:199-206).
BalanceInputs == {-1, MaxBalance}

Usernames == {"alice", "bob"}
Passwords == {"pw"}

\* A key that a dict does not hold (dict.get falls back to its default).
Missing == "<missing>"

\* A date as it is stored and compared: the TEXT 'YYYY-MM-DD' of a DATE
\* column.  The dates of the model lie in one month; their text is the
\* sequence of the digits after 'YYYY-MM-'.
\* date.isoformat(), the sqlite3 adapter of a datetime.date (the manual form
\* and every start_date / end_date): two digits, zero-padded.
isoformat(day) == <<day \div 10, day % 10>>

\* datetime.strptime(text, '%Y-%m-%d'), which accepts one-digit days.
strptime(text) ==
    IF Len(text) = 1 THEN text[1] ELSE 10 * text[1] + text[2]

\* The descriptive fields of an expense dict: category, title, date, notes.
\* The parsed path supplies no 'notes' key (gemini_client.py:85).
Details ==
    { [category |-> "Food",   title |-> "lunch", date |-> isoformat(1),
       notes |-> "n1"],
      [category |-> "Travel", title |-> "cab",   date |-> isoformat(2),
       notes |-> Missing] }

\* expense_data of save_expense.
ExpenseData ==
    { [user_id |-> u, amount |-> a, payment_method |-> m,
       category |-> d.category, title |-> d.title, date |-> d.date,
       notes |-> d.notes] :
      u \in UserIds, a \in Amounts, m \in Methods, d \in Details }

\* updated_data of update_expense.
UpdatedData ==
    { [amount |-> a, payment_method |-> m,
       category |-> d.category, title |-> d.title, date |-> d.date,
       notes |-> d.notes] :
      a \in Amounts, m \in Methods, d \in Details }

\* Where a storage step of a transaction raises: 0 = nowhere, k = the k-th
\* statement inside the try block (the commit being the last).
SaveFaults   == 0..3
DeleteFaults == 0..3
UpdateFaults == 0..4
SetFaults    == 0..2

VARIABLES
    users,        \* table users:    id -> [username, password_hash]
    wallets,      \* table wallets:  user_id -> [upi_balance, cash_balance]
    expenses,     \* table expenses: id -> row
    expense_seq,  \* AUTOINCREMENT counter of expenses (sqlite_sequence)
    ret,          \* the last call and what it returned or raised
    call,         \* history: the last call's user_id, expense_id (0 when it
                  \* takes none), the storage fault it met, and the rows
                  \* its SELECT on expenses fetched (one or none)
    before_save,  \* history: the wallets table before the last save_expense
                  \* that returned "", kept while the only call since is a
                  \* delete_expense of the row it inserted; NoSave otherwise
    calls,        \* number of calls made so far (bounded by MaxCalls)
    lock,         \* self.lock: the thread holding it, NoThread when free
    threads,      \* the threads inside save_expense / update_expense: where
                  \* each is, the call it makes, what it has read, its result
    initial,      \* history: the wallets table when the threads started
    result,       \* what the last reading call returned
    gemini_cache, \* table gemini_cache: prompt_hash -> response_json
    cached,       \* history: prompt -> the response last cached for it,
                  \* and whether that call replaced another response
    twin,         \* a second database, which differs from the first in the
                  \* expenses of one user only, and what the last call
                  \* returned on it
    asked,        \* history: the last reading call of the expense and
                  \* wallet tables, its arguments and what it returned
    model         \* GeminiClient.model: the generative model, None when
                  \* the client could not be configured

vars == <<users, wallets, expenses, expense_seq, ret, call, before_save,
          calls, lock, threads, initial, result, gemini_cache, cached, twin,
          asked, model>>

(***************************************************************************)
(* Helpers.                                                                *)
(***************************************************************************)
\* hashlib.sha256(value.encode()).hexdigest(): injective on the passwords of
\* the model, never the password itself.
_hash_value(value) == "sha256:" \o value

\* dict.get(key, default)
Get(value, default) == IF value = Missing THEN default ELSE value

\* The committed tables, as one value.
DB == [wallets |-> wallets, expenses |-> expenses, seq |-> expense_seq]

\* Mutant of Column: every method selects the cash column.
Column_AlwaysCash(method) == "cash_balance"

\* The wallet column a payment method selects: every `if method == 'UPI'
\* ... else ...` of the code.
Column(method) == IF method = "UPI" THEN "upi_balance" ELSE "cash_balance"

\* Mutant of UpdateWallet: the WHERE clause is missing, every row is updated.
UpdateWallet_NoWhere(db, user_id, col, delta) ==
    [db EXCEPT !.wallets = [u \in DOMAIN @ |-> [@[u] EXCEPT ![col] = @ + delta]]]

\* Mutant of UpdateWallet: the WHERE clause names the first user.
UpdateWallet_FirstRow(db, user_id, col, delta) ==
    IF 1 \in DOMAIN db.wallets
    THEN [db EXCEPT !.wallets[1][col] = @ + delta]
    ELSE db

\* UPDATE wallets SET <col> = <col> + delta WHERE user_id = ?
UpdateWallet(db, user_id, col, delta) ==
    IF user_id \in DOMAIN db.wallets
    THEN [db EXCEPT !.wallets[user_id][col] = @ + delta]
    ELSE db

\* Mutant of InsertExpense: the row takes the place of the latest row.
InsertExpense_Reuses(db, row) ==
    LET id == IF db.seq = 0 THEN 1 ELSE db.seq
    IN  [db EXCEPT !.expenses = (id :> row) @@ @, !.seq = id]

\* INSERT INTO expenses (...) VALUES (...)
InsertExpense(db, row) ==
    LET id == db.seq + 1
    IN  [db EXCEPT !.expenses = (id :> row) @@ @, !.seq = id]

\* Mutant of DeleteExpenseRow: the WHERE clause lacks `id = ?`.
DeleteExpenseRow_AllOfUser(db, expense_id, user_id) ==
    LET keep == { i \in DOMAIN db.expenses :
                    db.expenses[i].user_id # user_id }
    IN  [db EXCEPT !.expenses = [i \in keep |-> db.expenses[i]]]

\* DELETE FROM expenses WHERE id = ? AND user_id = ?
DeleteExpenseRow(db, expense_id, user_id) ==
    LET keep == { i \in DOMAIN db.expenses :
                    ~(i = expense_id /\ db.expenses[i].user_id = user_id) }
    IN  [db EXCEPT !.expenses = [i \in keep |-> db.expenses[i]]]

\* Mutant of UpdateExpenseRow: payment_method is not written.
UpdateExpenseRow_KeepsMethod(db, expense_id, user_id, d) ==
    IF expense_id \in DOMAIN db.expenses
         /\ db.expenses[expense_id].user_id = user_id
    THEN [db EXCEPT !.expenses[expense_id] =
            [@ EXCEPT !.category = d.category, !.title = d.title,
                      !.amount = d.amount, !.date = d.date,
                      !.notes = Get(d.notes, "")]]
    ELSE db

\* UPDATE expenses SET category=?, title=?, amount=?, date=?, notes=?,
\*   payment_method=? WHERE id=? AND user_id=?
UpdateExpenseRow(db, expense_id, user_id, d) ==
    IF expense_id \in DOMAIN db.expenses
         /\ db.expenses[expense_id].user_id = user_id
    THEN [db EXCEPT !.expenses[expense_id] =
            [@ EXCEPT !.category = d.category, !.title = d.title,
                      !.amount = d.amount, !.date = d.date,
                      !.notes = Get(d.notes, ""),
                      !.payment_method = d.payment_method]]
    ELSE db

\* Mutant of SelectExpense: the WHERE clause lacks `user_id = ?`.
SelectExpense_AnyOwner(expense_id, user_id) ==
    IF expense_id \in DOMAIN expenses
    THEN {expenses[expense_id]}
    ELSE {}

\* SELECT ... FROM expenses WHERE id = ? AND user_id = ?  (fetchone)
SelectExpense(expense_id, user_id) ==
    IF expense_id \in DOMAIN expenses /\ expenses[expense_id].user_id = user_id
    THEN {expenses[expense_id]}
    ELSE {}

\* conn.commit(): the pending tables become the stored ones.
Commit(pending) == pending

\* Mutant of Rollback: the pending writes are kept.
Rollback_KeepsPending(committed, pending) == pending

\* conn.rollback(): the stored tables stay as they were.
Rollback(committed, pending) == committed

\* A transaction whose statements produce the pending tables steps[1],
\* steps[2], ... in turn, followed by commit.  fault = 0: all statements and
\* the commit succeed.  fault = k: the k-th step raises (the commit is step
\* Len(steps)+1) and the except branch rolls back.
Transaction(committed, steps, fault) ==
    IF fault = 0
    THEN Commit(steps[Len(steps)])
    ELSE Rollback(committed,
                  IF fault = 1 THEN committed ELSE steps[fault - 1])

\* The tables after the call.
Store(db) ==
    /\ wallets' = db.wallets
    /\ expenses' = db.expenses
    /\ expense_seq' = db.seq

\* What a call returned (or raised), with the call it answers.
Ret(op, kind, method, available, required) ==
    [op |-> op, kind |-> kind, method |-> method,
     available |-> available, required |-> required]

Returned(op, kind) == Ret(op, kind, "", 0, 0)

\* Mutant of Short: the check lets an amount one above the balance through.
Short_OffByOne(balance, amount) == balance + 1 < amount

\* The balance checks `wallet[...] < amount` and `temp_... < new_amount`.
Short(balance, amount) == balance < amount

\* Mutant of TempBalances: the old debit is not reversed.
TempBalances_NoReversal(wallet, old_expense) == wallet

\* temp_upi, temp_cash of update_expense: the balances with the old
\* expense's debit reversed.
TempBalances(wallet, old_expense) ==
    IF old_expense.payment_method = "UPI"
    THEN [upi_balance  |-> wallet.upi_balance + old_expense.amount,
          cash_balance |-> wallet.cash_balance]
    ELSE [upi_balance  |-> wallet.upi_balance,
          cash_balance |-> wallet.cash_balance + old_expense.amount]

\* No wallets table recorded (a save_expense that returns "" has found a
\* wallet row, so the table it records is never empty).
NoSave == << >>

\* No row fetched.
NoRow == {}

\* No thread holds the lock.
NoThread == ""

\* No reading call made yet.
NoQuery == [op |-> "", call |-> << >>, result |-> << >>, calls |-> 0,
            since |-> -1]

\* The bookkeeping of the model at the end of a reading call: the call, what
\* it returned, the number of committed calls before it, and, when it
\* repeats the reading call before it, the number of calls committed
\* between the two (-1 when it repeats none).
Asked ==
    [op |-> ret'.op, call |-> call', result |-> result', calls |-> calls,
     since |-> IF asked.op = ret'.op /\ asked.call = call'
               THEN calls - asked.calls ELSE -1]

\* The bookkeeping of the model at the end of a call.
Counted(user_id, expense_id, fault, old) ==
    /\ calls' = calls + 1
    /\ call' = [user_id |-> user_id, expense_id |-> expense_id,
                fault |-> fault, old |-> old]
    /\ before_save' =
          IF ret'.op = "save_expense" /\ ret'.kind = "" THEN wallets
          ELSE IF /\ ret.op = "save_expense" /\ ret.kind = ""
                  /\ ret'.op = "delete_expense" /\ ret'.kind = "True"
                  /\ expense_id = expense_seq
               THEN before_save
               ELSE NoSave
    /\ UNCHANGED <<lock, threads, initial, result, gemini_cache, cached, twin,
                   asked,
                   model>>

(***************************************************************************)
(* Initial state: the tables _init_database creates, all empty.            *)
(***************************************************************************)
Init ==
    /\ users = << >>
    /\ wallets = << >>
    /\ expenses = << >>
    /\ expense_seq = 0
    /\ ret = Returned("_init_database", "")
    /\ call = [user_id |-> 0, expense_id |-> 0, fault |-> 0, old |-> NoRow]
    /\ before_save = NoSave
    /\ calls = 0
    /\ lock = NoThread
    /\ threads = << >>
    /\ initial = << >>
    /\ result = << >>
    /\ gemini_cache = << >>
    /\ cached = << >>
    /\ twin = << >>
    /\ asked = NoQuery
    /\ model = {}

(***************************************************************************)
(* create_user                                                             *)
(***************************************************************************)
\* Mutant of UsernameTaken: the UNIQUE constraint is missing.
UsernameTaken_Never(username) == FALSE

\* username TEXT UNIQUE: the INSERT raises when a row has the username.
UsernameTaken(username) ==
    \E i \in DOMAIN users : users[i].username = username

create_user(username, password) ==
  /\ calls < MaxCalls
  /\ LET password_hash == _hash_value(password)
         user_id == Len(users) + 1
     IN  IF UsernameTaken(username)
         THEN \* sqlite3.IntegrityError on the UNIQUE username
              /\ ret' = Returned("create_user", "False")
              /\ UNCHANGED <<users, wallets, expenses, expense_seq>>
         ELSE /\ user_id <= MaxUsers
              /\ users' = Append(users, [username |-> username,
                                         password_hash |-> password_hash])
              /\ wallets' = IF user_id \in DOMAIN wallets
                            THEN wallets
                            ELSE (user_id :> [upi_balance |-> 0,
                                              cash_balance |-> 0]) @@ wallets
              /\ ret' = Returned("create_user", "True")
              /\ UNCHANGED <<expenses, expense_seq>>
  /\ Counted(0, 0, 0, NoRow)

(***************************************************************************)
(* save_expense                                                            *)
(***************************************************************************)
save_expense(expense_data, fault) ==
  /\ calls < MaxCalls
  /\ LET user_id == expense_data.user_id
         amount  == expense_data.amount
         method  == Get(expense_data.payment_method, "Cash")
         row     == [user_id |-> user_id, category |-> expense_data.category,
                     title |-> expense_data.title, amount |-> amount,
                     date |-> expense_data.date,
                     notes |-> Get(expense_data.notes, ""),
                     payment_method |-> method]
         s1      == UpdateWallet(DB, user_id, Column(method), -amount)
         s2      == InsertExpense(s1, row)
     IN  IF user_id \notin DOMAIN wallets
         THEN \* wallet is None: wallet['upi_balance'] raises TypeError
              /\ fault = 0
              /\ ret' = Returned("save_expense", "TypeError")
              /\ UNCHANGED <<users, wallets, expenses, expense_seq>>
         ELSE IF method = "UPI" /\ Short(wallets[user_id].upi_balance, amount)
         THEN /\ fault = 0
              /\ ret' = Ret("save_expense", "Insufficient", "UPI",
                            wallets[user_id].upi_balance, amount)
              /\ UNCHANGED <<users, wallets, expenses, expense_seq>>
         ELSE IF method = "Cash" /\ Short(wallets[user_id].cash_balance, amount)
         THEN /\ fault = 0
              /\ ret' = Ret("save_expense", "Insufficient", "Cash",
                            wallets[user_id].cash_balance, amount)
              /\ UNCHANGED <<users, wallets, expenses, expense_seq>>
         ELSE /\ expense_seq < MaxExpenses
              /\ Store(Transaction(DB, <<s1, s2>>, fault))
              /\ ret' = Returned("save_expense",
                                 IF fault = 0 THEN "" ELSE "DatabaseError")
              /\ UNCHANGED users
  /\ Counted(expense_data.user_id, 0, fault, NoRow)

(***************************************************************************)
(* delete_expense                                                          *)
(***************************************************************************)
delete_expense(expense_id, user_id, fault) ==
  /\ calls < MaxCalls
  /\ LET found == SelectExpense(expense_id, user_id)
     IN  IF found = {}
         THEN /\ fault = 0
              /\ ret' = Returned("delete_expense", "False")
              /\ UNCHANGED <<users, wallets, expenses, expense_seq>>
         ELSE LET expense == CHOOSE e \in found : TRUE
                  s1 == UpdateWallet(DB, user_id,
                                     Column(expense.payment_method),
                                     expense.amount)
                  s2 == DeleteExpenseRow(s1, expense_id, user_id)
              IN  /\ Store(Transaction(DB, <<s1, s2>>, fault))
                  /\ ret' = Returned("delete_expense",
                                     IF fault = 0 THEN "True" ELSE "False")
                  /\ UNCHANGED users
  /\ Counted(user_id, expense_id, fault,
             SelectExpense(expense_id, user_id))

(***************************************************************************)
(* update_expense                                                          *)
(***************************************************************************)
update_expense(expense_id, user_id, updated_data, fault) ==
  /\ calls < MaxCalls
  /\ LET found == SelectExpense(expense_id, user_id)
     IN  IF found = {}
         THEN /\ fault = 0
              /\ ret' = Returned("update_expense", "NotFound")
              /\ UNCHANGED <<users, wallets, expenses, expense_seq>>
         ELSE IF user_id \notin DOMAIN wallets
         THEN \* wallet is None: wallet['upi_balance'] raises TypeError
              /\ fault = 0
              /\ ret' = Returned("update_expense", "TypeError")
              /\ UNCHANGED <<users, wallets, expenses, expense_seq>>
         ELSE LET old_expense == CHOOSE e \in found : TRUE
                  temp        == TempBalances(wallets[user_id], old_expense)
                  new_amount  == updated_data.amount
                  new_method  == updated_data.payment_method
                  s1 == UpdateWallet(DB, user_id,
                                     Column(old_expense.payment_method),
                                     old_expense.amount)
                  s2 == UpdateWallet(s1, user_id, Column(new_method),
                                     -new_amount)
                  s3 == UpdateExpenseRow(s2, expense_id, user_id, updated_data)
              IN  IF new_method = "UPI" /\ Short(temp.upi_balance, new_amount)
                  THEN /\ fault = 0
                       /\ ret' = Ret("update_expense", "Insufficient", "UPI",
                                     temp.upi_balance, new_amount)
                       /\ UNCHANGED <<users, wallets, expenses, expense_seq>>
                  ELSE IF new_method = "Cash"
                            /\ Short(temp.cash_balance, new_amount)
                  THEN /\ fault = 0
                       /\ ret' = Ret("update_expense", "Insufficient", "Cash",
                                     temp.cash_balance, new_amount)
                       /\ UNCHANGED <<users, wallets, expenses, expense_seq>>
                  ELSE /\ Store(Transaction(DB, <<s1, s2, s3>>, fault))
                       /\ ret' = Returned("update_expense",
                                          IF fault = 0 THEN ""
                                                       ELSE "DatabaseError")
                       /\ UNCHANGED users
  /\ Counted(user_id, expense_id, fault,
             SelectExpense(expense_id, user_id))

(***************************************************************************)
(* set_wallet_balances                                                     *)
(***************************************************************************)
\* Mutant of SetWallet: the WHERE clause is missing, every row is set.
SetWallet_NoWhere(db, user_id, upi_balance, cash_balance) ==
    [db EXCEPT !.wallets = [u \in DOMAIN @ |->
            [upi_balance |-> upi_balance, cash_balance |-> cash_balance]]]

\* UPDATE wallets SET upi_balance = ?, cash_balance = ? WHERE user_id = ?
SetWallet(db, user_id, upi_balance, cash_balance) ==
    IF user_id \in DOMAIN db.wallets
    THEN [db EXCEPT !.wallets[user_id] =
            [upi_balance |-> upi_balance, cash_balance |-> cash_balance]]
    ELSE db

set_wallet_balances(user_id, upi_balance, cash_balance, fault) ==
  /\ calls < MaxCalls
  /\ LET s1 == SetWallet(DB, user_id, upi_balance, cash_balance)
     IN  \* except Exception: return False; the connection closes uncommitted
         /\ Store(Transaction(DB, <<s1>>, fault))
         /\ ret' = Returned("set_wallet_balances",
                            IF fault = 0 THEN "True" ELSE "False")
         /\ UNCHANGED users
  /\ Counted(user_id, 0, fault, NoRow)

(***************************************************************************)
(* The ledger: any caller makes any call.                                  *)
(***************************************************************************)
Next ==
    \/ \E username \in Usernames, password \in Passwords :
          create_user(username, password)
    \/ \E expense_data \in ExpenseData, fault \in SaveFaults :
          save_expense(expense_data, fault)
    \/ \E expense_id \in ExpenseIds, user_id \in UserIds,
          fault \in DeleteFaults :
          delete_expense(expense_id, user_id, fault)
    \/ \E expense_id \in ExpenseIds, user_id \in UserIds,
          updated_data \in UpdatedData, fault \in UpdateFaults :
          update_expense(expense_id, user_id, updated_data, fault)
    \/ \E user_id \in UserIds, upi_balance \in BalanceInputs,
          cash_balance \in BalanceInputs, fault \in SetFaults :
          set_wallet_balances(user_id, upi_balance, cash_balance, fault)

Spec == Init /\ [][Next]_vars

(***************************************************************************)
(* Two threads of the one Streamlit process, each inside one call of       *)
(* save_expense or update_expense on the shared DatabaseManager            *)
(* (main.py:48-51 caches a single instance, so self.lock is shared).  Each *)
(* thread has its own connection: it reads the committed tables, and its   *)
(* writes become visible at its commit.                                    *)
(***************************************************************************)
Threads == {"t1", "t2"}

\* The user both threads act for, and the expense an update_expense names.
ThreadUser    == 1
ThreadExpense == 1

\* The calls a thread makes: the method and its updated_data / expense_data
\* (less the user_id, which is ThreadUser).
ThreadCalls ==
    { [op |-> op, data |-> d] :
      op \in {"save_expense", "update_expense"},
      d \in { x \in UpdatedData : x.category = "Food" } }

\* Mutant of LockFree: the lock excludes nobody.
LockFree_NoLock == TRUE

\* threading.Lock: acquire succeeds only while nobody holds the lock.
LockFree == lock = NoThread

\* The state of a thread: before `with self.lock` ("idle"), holding the lock
\* before the SELECTs ("locked"), past the balance checks ("checked"), or
\* returned ("done").
Thread(pc, request, old, kind) ==
    [pc |-> pc, op |-> request.op, data |-> request.data, old |-> old,
     kind |-> kind]

\* The tables the threads start from: ThreadUser registered, any balances
\* in 0..MaxBalance, and no expense or one UPI expense of amount 1.
ThreadInit ==
    /\ users = <<[username |-> "alice", password_hash |-> _hash_value("pw")]>>
    /\ \E upi \in 0..MaxBalance, cash \in {0, MaxBalance} :
          wallets = (ThreadUser :> [upi_balance |-> upi, cash_balance |-> cash])
    /\ \E n \in {0, 1} :
          /\ expense_seq = n
          /\ expenses = [i \in 1..n |->
                           [user_id |-> ThreadUser, category |-> "Travel",
                            title |-> "cab", amount |-> 1,
                            date |-> isoformat(2),
                            notes |-> "", payment_method |-> "UPI"]]
    /\ ret = Returned("_init_database", "")
    /\ call = [user_id |-> 0, expense_id |-> 0, fault |-> 0, old |-> NoRow]
    /\ before_save = NoSave
    /\ calls = 0
    /\ lock = NoThread
    /\ threads \in [Threads -> { Thread("idle", c, NoRow, "pending") :
                                 c \in ThreadCalls }]
    /\ initial = wallets
    /\ result = << >>
    /\ gemini_cache = << >>
    /\ cached = << >>
    /\ twin = << >>
    /\ asked = NoQuery
    /\ model = {}

\* The saves that have been called and have not returned.
SavesInFlight ==
    { t \in Threads : /\ threads[t].op = "save_expense"
                      /\ threads[t].pc \in {"locked", "checked"} }

\* `with self.lock` of save_expense (line 111) and update_expense (156).
acquire(t) ==
    /\ threads[t].pc = "idle"
    /\ LockFree
    /\ threads[t].op = "save_expense"
          => expense_seq + Cardinality(SavesInFlight) < MaxExpenses
    /\ lock' = t
    /\ threads' = [threads EXCEPT ![t].pc = "locked"]
    /\ UNCHANGED <<users, wallets, expenses, expense_seq, ret, call,
                   before_save, calls, initial, result, gemini_cache,
                   cached, twin,
                   asked,
                   model>>

\* The SELECTs and the balance checks: save_expense lines 113-117,
\* update_expense lines 158-170.  A return leaves the `with`, which releases
\* the lock.
check(t) ==
    /\ threads[t].pc = "locked"
    /\ LET th       == threads[t]
           amount   == th.data.amount
           method   == th.data.payment_method
           found    == IF th.op = "update_expense"
                       THEN SelectExpense(ThreadExpense, ThreadUser)
                       ELSE NoRow
           wallet   == IF found = NoRow
                       THEN wallets[ThreadUser]
                       ELSE TempBalances(wallets[ThreadUser],
                                         CHOOSE e \in found : TRUE)
           refused  == \/ method = "UPI" /\ Short(wallet.upi_balance, amount)
                       \/ method = "Cash" /\ Short(wallet.cash_balance, amount)
           kind     == IF th.op = "update_expense" /\ found = NoRow
                       THEN "NotFound"
                       ELSE IF refused THEN "Insufficient" ELSE "pending"
       IN  /\ threads' = [threads EXCEPT ![t] =
                 [@ EXCEPT !.pc = IF kind = "pending" THEN "checked"
                                                     ELSE "done",
                           !.old = found, !.kind = kind]]
           /\ lock' = IF kind = "pending" THEN lock ELSE NoThread
    /\ UNCHANGED <<users, wallets, expenses, expense_seq, ret, call,
                   before_save, calls, initial, result, gemini_cache,
                   cached, twin,
                   asked,
                   model>>

\* The try block: save_expense lines 119-130, update_expense lines 172-188,
\* then the return, which releases the lock.
write(t) ==
    /\ threads[t].pc = "checked"
    /\ LET th  == threads[t]
           d   == th.data
           row == [user_id |-> ThreadUser, category |-> d.category,
                   title |-> d.title, amount |-> d.amount, date |-> d.date,
                   notes |-> Get(d.notes, ""),
                   payment_method |-> d.payment_method]
           old == CHOOSE e \in th.old : TRUE
           a1  == UpdateWallet(DB, ThreadUser, Column(d.payment_method),
                               -d.amount)
           a2  == InsertExpense(a1, row)
           u1  == UpdateWallet(DB, ThreadUser, Column(old.payment_method),
                               old.amount)
           u2  == UpdateWallet(u1, ThreadUser, Column(d.payment_method),
                               -d.amount)
           u3  == UpdateExpenseRow(u2, ThreadExpense, ThreadUser, d)
       IN  IF th.op = "save_expense"
           THEN Store(Transaction(DB, <<a1, a2>>, 0))
           ELSE Store(Transaction(DB, <<u1, u2, u3>>, 0))
    /\ threads' = [threads EXCEPT ![t] = [@ EXCEPT !.pc = "done", !.kind = ""]]
    /\ lock' = NoThread
    /\ UNCHANGED <<users, ret, call, before_save, calls, initial, result,
                   gemini_cache, cached, twin,
                   asked,
                   model>>

ThreadNext ==
    \/ \E t \in Threads : acquire(t)
    \/ \E t \in Threads : check(t)
    \/ \E t \in Threads : write(t)

ThreadSpec == ThreadInit /\ [][ThreadNext]_vars

(***************************************************************************)
(* get_filtered_expenses: one SELECT over the expenses table.              *)
(***************************************************************************)
\* float('inf'), the upper end of the amount_range main.py passes: above
\* every amount of the model.
Infinity == 1000000

\* The values of a list.
Values(list) == { list[i] : i \in DOMAIN list }

\* a < b for two TEXT values in SQLite's BINARY collation: the first
\* differing character decides, and a proper prefix is the lesser.
TextLess(a, b) ==
    \E k \in 1..(Len(a) + 1) :
        /\ \A i \in 1..(k - 1) : i <= Len(b) /\ a[i] = b[i]
        /\ \/ k = Len(a) + 1 /\ k <= Len(b)
           \/ k <= Len(a) /\ k <= Len(b) /\ a[k] < b[k]

\* x BETWEEN low AND high, on TEXT
TextBetween(x, low, high) == ~TextLess(x, low) /\ ~TextLess(high, x)

\* The WHERE clause the method builds (lines 209-216).
Where(row, user_id, start_date, end_date, categories, amount_range) ==
    /\ row.user_id = user_id
    /\ TextBetween(row.date, start_date, end_date)
    /\ categories # << >> => row.category \in Values(categories)
    /\ amount_range # << >> =>
          amount_range[1] <= row.amount /\ row.amount <= amount_range[2]

\* Row i comes before row j under ORDER BY date DESC, id DESC.
OrderedBefore(i, j) ==
    \/ TextLess(expenses[j].date, expenses[i].date)
    \/ expenses[i].date = expenses[j].date /\ i > j

RECURSIVE OrderBy(_)
\* The ids of a set of rows in the order of ORDER BY date DESC, id DESC.
OrderBy(ids) ==
    IF ids = {} THEN << >>
    ELSE LET first == CHOOSE i \in ids :
                         \A j \in ids \ {i} : OrderedBefore(i, j)
         IN  <<first>> \o OrderBy(ids \ {first})

\* pd.read_sql_query(query, conn, params): the ids of the rows returned, in
\* the order returned.
read_sql_query(user_id, start_date, end_date, categories, amount_range) ==
    OrderBy({ i \in DOMAIN expenses :
                Where(expenses[i], user_id, start_date, end_date,
                      categories, amount_range) })

get_filtered_expenses(user_id, start_date, end_date, categories, amount_range) ==
    /\ result' = read_sql_query(user_id, start_date, end_date, categories,
                                amount_range)
    /\ ret' = Returned("get_filtered_expenses", "")
    /\ call' = [user_id |-> user_id, start_date |-> start_date,
                end_date |-> end_date, categories |-> categories,
                amount_range |-> amount_range]
    /\ UNCHANGED <<users, wallets, expenses, expense_seq, before_save, calls,
                   lock, threads, initial, gemini_cache, cached, twin,
                   model>>
    /\ asked' = Asked

\* The date texts of stored rows: the manual form stores isoformat text; the
\* parsed path stores whatever text strptime accepted (gemini_client.py:90),
\* which includes a one-digit day.
StoredDates == {isoformat(5), <<1>>, isoformat(10)}

\* The rows the table holds when the queries are made.
QueryRows ==
    { [user_id |-> u, category |-> k.category, title |-> "lunch",
       amount |-> k.amount, date |-> d, notes |-> "",
       payment_method |-> "UPI"] :
      u \in {1, 2},
      k \in {[category |-> "Food", amount |-> 1],
             [category |-> "Travel", amount |-> 2]},
      d \in StoredDates }

\* The arguments of the queries: a date range of the dashboard or the
\* export (datetime.date objects), the selected categories, and the amount
\* range ((0, inf) in main.py:179,350).
QueryDays        == {1, 5, 10}
QueryCategories  == {<< >>, <<"Food">>, <<"Food", "Travel">>}
QueryAmountRanges == {<< >>, <<0, Infinity>>, <<2, 2>>}

\* Two registered users and any table of at most MaxExpenses rows.
QueryInit ==
    /\ users = <<[username |-> "alice", password_hash |-> _hash_value("pw")],
                 [username |-> "bob", password_hash |-> _hash_value("pw")]>>
    /\ wallets = <<[upi_balance |-> 0, cash_balance |-> 0],
                   [upi_balance |-> 0, cash_balance |-> 0]>>
    /\ \E n \in 0..MaxExpenses :
          /\ expense_seq = n
          /\ expenses \in [1..n -> QueryRows]
    /\ ret = Returned("_init_database", "")
    /\ call = [user_id |-> 0, expense_id |-> 0, fault |-> 0, old |-> NoRow]
    /\ before_save = NoSave
    /\ calls = 0
    /\ lock = NoThread
    /\ threads = << >>
    /\ initial = << >>
    /\ result = << >>
    /\ gemini_cache = << >>
    /\ cached = << >>
    /\ twin = << >>
    /\ asked = NoQuery
    /\ model = {}

QueryNext ==
    \E start \in QueryDays, end \in QueryDays,
       categories \in QueryCategories, amount_range \in QueryAmountRanges :
        /\ start <= end
        /\ get_filtered_expenses(1, isoformat(start), isoformat(end),
                                 categories, amount_range)

QuerySpec == QueryInit /\ [][QueryNext]_vars

(***************************************************************************)
(* The response cache: cache_response and get_cached_response.             *)
(***************************************************************************)
Prompts   == {"p1", "p2", "p3"}
\* json.dumps(parsed_data), and the empty string the column also admits.
Responses == {"", "{json}"}

\* Mutant of InsertOrReplace: INSERT OR IGNORE, an existing row is kept.
InsertOrReplace_Ignore(table, key, value) ==
    IF key \in DOMAIN table THEN table ELSE (key :> value) @@ table

\* INSERT OR REPLACE INTO gemini_cache (prompt_hash, response_json)
InsertOrReplace(table, key, value) ==
    (key :> value) @@ [k \in DOMAIN table \ {key} |-> table[k]]

\* Nothing returned: None.
None == {}

cache_response(prompt, response) ==
    /\ LET prompt_hash == _hash_value(prompt)
       IN  gemini_cache' = InsertOrReplace(gemini_cache, prompt_hash, response)
    /\ cached' = (prompt :> [response |-> response,
                             replaced |-> /\ prompt \in DOMAIN cached
                                          /\ cached[prompt].response
                                               # response])
                  @@ cached
    /\ ret' = Returned("cache_response", "")
    /\ call' = [prompt |-> prompt, response |-> response]
    /\ result' = None
    /\ UNCHANGED <<users, wallets, expenses, expense_seq, before_save, calls,
                   lock, threads, initial, twin,
                   asked,
                   model>>

get_cached_response(prompt) ==
    /\ LET prompt_hash == _hash_value(prompt)
       IN  result' = IF prompt_hash \in DOMAIN gemini_cache
                     THEN {gemini_cache[prompt_hash]}
                     ELSE None
    /\ ret' = Returned("get_cached_response", "")
    /\ call' = [prompt |-> prompt, response |-> ""]
    /\ UNCHANGED <<users, wallets, expenses, expense_seq, before_save, calls,
                   lock, threads, initial, gemini_cache, cached, twin,
                   asked,
                   model>>

CacheNext ==
    \/ \E prompt \in Prompts, response \in Responses :
          cache_response(prompt, response)
    \/ \E prompt \in Prompts : get_cached_response(prompt)

CacheSpec == Init /\ [][CacheNext]_vars

(***************************************************************************)
(* Accounts: create_user, authenticate_user, get_wallet_balances and       *)
(* set_wallet_balances.                                                    *)
(***************************************************************************)
\* The passwords typed at registration and login.
AccountPasswords == Passwords \cup {"guess"}

\* Mutant of InsertWalletOrIgnore: INSERT OR REPLACE, an existing row is
\* reset to the defaults.
InsertWalletOrIgnore_Replace(table, user_id) ==
    (user_id :> [upi_balance |-> 0, cash_balance |-> 0])
       @@ [u \in DOMAIN table \ {user_id} |-> table[u]]

\* INSERT OR IGNORE INTO wallets (user_id) VALUES (?): the balances take
\* their DEFAULT 0.
InsertWalletOrIgnore(table, user_id) ==
    IF user_id \in DOMAIN table
    THEN table
    ELSE (user_id :> [upi_balance |-> 0, cash_balance |-> 0]) @@ table

\* SELECT * FROM users WHERE username = ? AND password_hash = ?  (fetchone)
SelectUser(username, password_hash) ==
    { [id |-> i, username |-> users[i].username,
       password_hash |-> users[i].password_hash] :
      i \in { j \in DOMAIN users : /\ users[j].username = username
                                   /\ users[j].password_hash = password_hash } }

authenticate_user(username, password) ==
    /\ calls < MaxCalls
    /\ calls' = calls + 1
    /\ LET password_hash == _hash_value(password)
           user == SelectUser(username, password_hash)
       IN  /\ wallets' = IF user # {}
                         THEN InsertWalletOrIgnore(wallets,
                                  (CHOOSE u \in user : TRUE).id)
                         ELSE wallets
           /\ result' = IF user # {} THEN user ELSE None
    /\ ret' = Returned("authenticate_user", "")
    /\ call' = [username |-> username, password |-> password,
                had_wallet |->
                    \E u \in SelectUser(username, _hash_value(password)) :
                        u.id \in DOMAIN wallets]
    /\ UNCHANGED <<users, expenses, expense_seq, before_save, lock, threads,
                   initial, gemini_cache, cached, twin,
                   asked,
                   model>>

\* Mutant of WalletOrDefault: no default, None for a missing row.
WalletOrDefault_None(user_id) ==
    IF user_id \in DOMAIN wallets THEN {wallets[user_id]} ELSE None

\* dict(wallet) if wallet else {'upi_balance': 0.0, 'cash_balance': 0.0}
WalletOrDefault(user_id) ==
    IF user_id \in DOMAIN wallets
    THEN {wallets[user_id]}
    ELSE {[upi_balance |-> 0, cash_balance |-> 0]}

get_wallet_balances(user_id) ==
    /\ result' = WalletOrDefault(user_id)
    /\ ret' = Returned("get_wallet_balances", "")
    /\ call' = [user_id |-> user_id]
    /\ UNCHANGED <<users, wallets, expenses, expense_seq, before_save, calls,
                   lock, threads, initial, gemini_cache, cached, twin,
                   model>>
    /\ asked' = Asked

\* The database file the process opens: a new one, or one written before
\* the wallets table existed (CREATE TABLE IF NOT EXISTS adds the table and
\* no row), in which a registered user has no wallet row.
AccountInit ==
    /\ \/ users = << >>
       \/ users = <<[username |-> "alice",
                     password_hash |-> _hash_value("pw")]>>
    /\ wallets = << >>
    /\ expenses = << >>
    /\ expense_seq = 0
    /\ ret = Returned("_init_database", "")
    /\ call = [user_id |-> 0, expense_id |-> 0, fault |-> 0, old |-> NoRow]
    /\ before_save = NoSave
    /\ calls = 0
    /\ lock = NoThread
    /\ threads = << >>
    /\ initial = << >>
    /\ result = << >>
    /\ gemini_cache = << >>
    /\ cached = << >>
    /\ twin = << >>
    /\ asked = NoQuery
    /\ model = {}

AccountNext ==
    \/ \E username \in Usernames, password \in AccountPasswords :
          create_user(username, password)
    \/ \E username \in Usernames, password \in AccountPasswords :
          authenticate_user(username, password)
    \/ \E user_id \in UserIds : get_wallet_balances(user_id)
    \/ \E user_id \in UserIds, upi_balance \in BalanceInputs,
          cash_balance \in BalanceInputs, fault \in SetFaults :
          set_wallet_balances(user_id, upi_balance, cash_balance, fault)

AccountSpec == AccountInit /\ [][AccountNext]_vars

(***************************************************************************)
(* Two databases side by side.  They hold the same users, wallets and      *)
(* expenses of the caller and differ in the expenses of another user.  The *)
(* caller makes each delete_expense / update_expense call on both: first   *)
(* on the second database (the twin), then on the first.                   *)
(***************************************************************************)
TwinOther    == 1    \* the user whose expenses differ
TwinCaller   == 2    \* the user who makes the calls
TwinExpenses == 2    \* the expense ids the caller names are 1..TwinExpenses
TwinCalls    == 2    \* calls the caller makes on each database

\* The rows of a user in the two databases.
TwinRows(user_id) ==
    { [user_id |-> user_id, category |-> "Food", title |-> "lunch",
       amount |-> a, date |-> isoformat(1), notes |-> "",
       payment_method |-> m] :
      a \in IF user_id = TwinOther THEN {1, 2} ELSE {1}, m \in Methods }

\* updated_data of the caller's update_expense calls.
TwinData ==
    { d \in UpdatedData : d.category = "Travel" /\ d.amount > 0 }

\* Storage faults of the caller's calls: none, or at the second statement.
TwinFaults == {0, 2}

\* Mutant of SelectIn: the WHERE clause lacks `user_id = ?`.
SelectIn_AnyOwner(table, expense_id, user_id) ==
    IF expense_id \in DOMAIN table THEN {table[expense_id]} ELSE {}

\* SELECT ... FROM expenses WHERE id = ? AND user_id = ?  (fetchone), on
\* the expenses table of a database.
SelectIn(table, expense_id, user_id) ==
    IF expense_id \in DOMAIN table /\ table[expense_id].user_id = user_id
    THEN {table[expense_id]}
    ELSE {}

\* The tables of the twin, as one value.
TwinDB == [wallets |-> twin.wallets, expenses |-> twin.expenses,
           seq |-> twin.seq]

\* The twin after a call: its tables, what the call returned, the call.
Twin(db, returned, op, expense_id, user_id, data, fault) ==
    [wallets |-> db.wallets, expenses |-> db.expenses, seq |-> db.seq,
     ret |-> returned, calls |-> twin.calls + 1,
     call |-> [op |-> op, expense_id |-> expense_id, user_id |-> user_id,
               data |-> data, fault |-> fault]]

\* delete_expense (lines 136-153) on the twin.
delete_expense_twin(expense_id, user_id, fault) ==
    /\ twin.calls = calls
    /\ calls < MaxCalls
    /\ LET found == SelectIn(twin.expenses, expense_id, user_id)
           data  == CHOOSE d \in TwinData : TRUE
       IN  IF found = {}
           THEN /\ fault = 0
                /\ twin' = Twin(TwinDB, Returned("delete_expense", "False"),
                                "delete_expense", expense_id, user_id, data,
                                fault)
           ELSE LET expense == CHOOSE e \in found : TRUE
                    s1 == UpdateWallet(TwinDB, user_id,
                                       Column(expense.payment_method),
                                       expense.amount)
                    s2 == DeleteExpenseRow(s1, expense_id, user_id)
                IN  twin' = Twin(Transaction(TwinDB, <<s1, s2>>, fault),
                                 Returned("delete_expense",
                                          IF fault = 0 THEN "True"
                                                       ELSE "False"),
                                 "delete_expense", expense_id, user_id, data,
                                 fault)
    /\ UNCHANGED <<users, wallets, expenses, expense_seq, ret, call,
                   before_save, calls, lock, threads, initial, result,
                   gemini_cache, cached,
                   asked,
                   model>>

\* update_expense (lines 155-192) on the twin.
update_expense_twin(expense_id, user_id, updated_data, fault) ==
    /\ twin.calls = calls
    /\ calls < MaxCalls
    /\ LET found == SelectIn(twin.expenses, expense_id, user_id)
           done(db, returned) ==
               Twin(db, returned, "update_expense", expense_id, user_id,
                    updated_data, fault)
       IN  IF found = {}
           THEN /\ fault = 0
                /\ twin' = done(TwinDB, Returned("update_expense", "NotFound"))
           ELSE IF user_id \notin DOMAIN twin.wallets
           THEN /\ fault = 0
                /\ twin' = done(TwinDB, Returned("update_expense", "TypeError"))
           ELSE LET old_expense == CHOOSE e \in found : TRUE
                    temp        == TempBalances(twin.wallets[user_id],
                                                old_expense)
                    new_amount  == updated_data.amount
                    new_method  == updated_data.payment_method
                    s1 == UpdateWallet(TwinDB, user_id,
                                       Column(old_expense.payment_method),
                                       old_expense.amount)
                    s2 == UpdateWallet(s1, user_id, Column(new_method),
                                       -new_amount)
                    s3 == UpdateExpenseRow(s2, expense_id, user_id,
                                           updated_data)
                IN  IF new_method = "UPI"
                         /\ Short(temp.upi_balance, new_amount)
                    THEN /\ fault = 0
                         /\ twin' = done(TwinDB,
                               Ret("update_expense", "Insufficient", "UPI",
                                   temp.upi_balance, new_amount))
                    ELSE IF new_method = "Cash"
                              /\ Short(temp.cash_balance, new_amount)
                    THEN /\ fault = 0
                         /\ twin' = done(TwinDB,
                               Ret("update_expense", "Insufficient", "Cash",
                                   temp.cash_balance, new_amount))
                    ELSE twin' = done(Transaction(TwinDB, <<s1, s2, s3>>,
                                                  fault),
                                      Returned("update_expense",
                                               IF fault = 0
                                               THEN "" ELSE "DatabaseError"))
    /\ UNCHANGED <<users, wallets, expenses, expense_seq, ret, call,
                   before_save, calls, lock, threads, initial, result,
                   gemini_cache, cached,
                   asked,
                   model>>

\* The call the twin has answered and the first database has not.
Mirrored(op) ==
    IF twin.calls = calls + 1 /\ twin.call.op = op THEN {twin.call} ELSE {}

\* The expenses tables the twin may hold beside a table of the first
\* database: the caller's rows are the same, every other id is free or holds
\* a row of the other user.
TwinTables(table) ==
    { t \in UNION { [ids -> TwinRows(TwinOther) \cup TwinRows(TwinCaller)] :
                    ids \in SUBSET (1..TwinExpenses) } :
        \A i \in 1..TwinExpenses :
            IF table[i].user_id = TwinCaller
            THEN i \in DOMAIN t /\ t[i] = table[i]
            ELSE i \in DOMAIN t => t[i].user_id = TwinOther }

TwinInit ==
    /\ users = <<[username |-> "alice", password_hash |-> _hash_value("pw")],
                 [username |-> "bob", password_hash |-> _hash_value("pw")]>>
    /\ \E upi \in {0, MaxBalance} :
          wallets = <<[upi_balance |-> 0, cash_balance |-> 0],
                      [upi_balance |-> upi, cash_balance |-> 0]>>
    /\ expenses \in [1..TwinExpenses ->
                       TwinRows(TwinOther) \cup TwinRows(TwinCaller)]
    /\ expense_seq = TwinExpenses
    /\ ret = Returned("_init_database", "")
    /\ call = [user_id |-> 0, expense_id |-> 0, fault |-> 0, old |-> NoRow]
    /\ before_save = NoSave
    /\ calls = MaxCalls - TwinCalls
    /\ lock = NoThread
    /\ threads = << >>
    /\ initial = << >>
    /\ result = << >>
    /\ gemini_cache = << >>
    /\ cached = << >>
    /\ asked = NoQuery
    /\ model = {}
    /\ \E t \in TwinTables(expenses) :
          twin = [wallets |-> wallets, expenses |-> t, seq |-> expense_seq,
                  ret |-> ret, calls |-> calls,
                  call |-> [op |-> "", expense_id |-> 0, user_id |-> 0,
                            data |-> CHOOSE d \in TwinData : TRUE,
                            fault |-> 0]]

TwinNext ==
    \/ \E expense_id \in 1..TwinExpenses, fault \in TwinFaults :
          delete_expense_twin(expense_id, TwinCaller, fault)
    \/ \E expense_id \in 1..TwinExpenses, updated_data \in TwinData,
          fault \in TwinFaults :
          update_expense_twin(expense_id, TwinCaller, updated_data, fault)
    \/ \E c \in Mirrored("delete_expense") :
          delete_expense(c.expense_id, c.user_id, c.fault)
    \/ \E c \in Mirrored("update_expense") :
          update_expense(c.expense_id, c.user_id, c.data, c.fault)

TwinSpec == TwinInit /\ [][TwinNext]_vars

(***************************************************************************)
(* The reading calls of one user, made between the ledger calls of another *)
(* user.                                                                   *)
(***************************************************************************)
ScopeCaller == 1
ScopeOther  == 2

\* The ledger calls the other user makes.
ScopeCalls == 2

\* The categories of the model in the order of SQLite's BINARY collation.
CategoryOrder == <<"Food", "Travel">>

\* Mutant of OwnRows: the WHERE clause lacks `user_id = ?`.
OwnRows_AnyUser(user_id) == DOMAIN expenses

\* The ids of the rows `WHERE user_id = ?` selects.
OwnRows(user_id) == { i \in DOMAIN expenses : expenses[i].user_id = user_id }

\* STRFTIME('%Y', date): the year of a well-formed date text, NULL for a
\* text that is not 'YYYY-MM-DD' (a one-digit day).  The dates of the model
\* lie in one year.
STRFTIME_Y(text) == IF Len(text) = 2 THEN {"2024"} ELSE None

get_expense_by_id(expense_id, user_id) ==
    /\ result' = { ("id" :> expense_id) @@ [e EXCEPT !.date = strptime(e.date)] :
                   e \in SelectExpense(expense_id, user_id) }
    /\ ret' = Returned("get_expense_by_id", "")
    /\ call' = [expense_id |-> expense_id, user_id |-> user_id]
    /\ asked' = Asked
    /\ UNCHANGED <<users, wallets, expenses, expense_seq, before_save, calls,
                   lock, threads, initial, gemini_cache, cached, twin,
                   model>>

get_user_categories(user_id) ==
    /\ result' = SelectSeq(CategoryOrder,
                    LAMBDA k : \E i \in OwnRows(user_id) :
                                  expenses[i].category = k)
    /\ ret' = Returned("get_user_categories", "")
    /\ call' = [user_id |-> user_id]
    /\ asked' = Asked
    /\ UNCHANGED <<users, wallets, expenses, expense_seq, before_save, calls,
                   lock, threads, initial, gemini_cache, cached, twin,
                   model>>

get_user_expense_years(user_id) ==
    /\ result' = SelectSeq(<<{"2024"}, None>>,
                    LAMBDA y : \E i \in OwnRows(user_id) :
                                  STRFTIME_Y(expenses[i].date) = y)
    /\ ret' = Returned("get_user_expense_years", "")
    /\ call' = [user_id |-> user_id]
    /\ asked' = Asked
    /\ UNCHANGED <<users, wallets, expenses, expense_seq, before_save, calls,
                   lock, threads, initial, gemini_cache, cached, twin,
                   model>>

\* The rows stored when the calls begin.
ScopeRows ==
    { [user_id |-> u, category |-> k, title |-> "lunch", amount |-> 1,
       date |-> d, notes |-> "", payment_method |-> "UPI"] :
      u \in {ScopeCaller, ScopeOther}, k \in {"Food", "Travel"},
      d \in {isoformat(1), <<1>>} }

\* Two registered users with wallets and at most one stored row.
ScopeInit ==
    /\ users = <<[username |-> "alice", password_hash |-> _hash_value("pw")],
                 [username |-> "bob", password_hash |-> _hash_value("pw")]>>
    /\ wallets = <<[upi_balance |-> 1, cash_balance |-> 0],
                   [upi_balance |-> MaxBalance, cash_balance |-> MaxBalance]>>
    /\ \E n \in 0..1 :
          /\ expense_seq = n
          /\ expenses \in [1..n -> ScopeRows]
    /\ ret = Returned("_init_database", "")
    /\ call = [user_id |-> 0, expense_id |-> 0, fault |-> 0, old |-> NoRow]
    /\ before_save = NoSave
    /\ calls = MaxCalls - ScopeCalls
    /\ lock = NoThread
    /\ threads = << >>
    /\ initial = << >>
    /\ result = << >>
    /\ gemini_cache = << >>
    /\ cached = << >>
    /\ twin = << >>
    /\ asked = NoQuery
    /\ model = {}

ScopeNext ==
    \/ \E categories \in {<< >>, <<"Food">>} :
          get_filtered_expenses(ScopeCaller, isoformat(1), isoformat(10),
                                categories, <<0, Infinity>>)
    \/ \E expense_id \in ExpenseIds :
          get_expense_by_id(expense_id, ScopeCaller)
    \/ get_user_categories(ScopeCaller)
    \/ get_user_expense_years(ScopeCaller)
    \/ get_wallet_balances(ScopeCaller)
    \/ \E expense_data \in { d \in ExpenseData : d.user_id = ScopeOther } :
          save_expense(expense_data, 0)
    \/ \E expense_id \in ExpenseIds : delete_expense(expense_id, ScopeOther, 0)
    \/ \E expense_id \in ExpenseIds, updated_data \in UpdatedData :
          update_expense(expense_id, ScopeOther, updated_data, 0)
    \/ \E upi_balance \in BalanceInputs, cash_balance \in BalanceInputs :
          set_wallet_balances(ScopeOther, upi_balance, cash_balance, 0)

ScopeSpec == ScopeInit /\ [][ScopeNext]_vars

(***************************************************************************)
(* The threads of the process statement by statement: every method that    *)
(* writes, on its own connection, between the reading calls of other       *)
(* sessions.  A connection's statements are pending until its commit; a    *)
(* SELECT of another connection reads the committed tables.                *)
(***************************************************************************)
LockUser    == 1
LockExpense == 1

\* The calls that may still commit when the threads start.
LockCommits == 2

\* The committed tables, users and the cache included, as one value.
Tables ==
    [users |-> users, wallets |-> wallets, expenses |-> expenses,
     seq |-> expense_seq, gemini_cache |-> gemini_cache]

\* The tables after a commit or a rollback.
StoreAll(db) ==
    /\ users' = db.users
    /\ wallets' = db.wallets
    /\ expenses' = db.expenses
    /\ expense_seq' = db.seq
    /\ gemini_cache' = db.gemini_cache

\* Mutant of Visible: the pending rows of a connection are read by the others.
Visible_Dirty(committed, pending) == pending

\* What the other connections read while a connection has pending
\* statements: the committed tables.
Visible(committed, pending) == committed

\* Mutant of WithLock: authenticate_user inserts the wallet row unlocked.
WithLock_NotAuthenticate(op) == op # "authenticate_user"

\* The methods whose statements run inside `with self.lock`.
WithLock(op) ==
    op \in {"create_user", "authenticate_user", "save_expense",
            "delete_expense", "update_expense", "set_wallet_balances",
            "cache_response"}

\* Mutant of Released: a method that fails keeps the lock.
Released_OnSuccess(kind) ==
    kind \in {"", "True", "user", "None"}

\* Leaving the `with self.lock` block, by return or by exception, releases
\* the lock.
Released(kind) == TRUE

\* The calls the threads make.
LockCalls ==
    { [op |-> "create_user", username |-> "bob", password |-> "pw"],
      [op |-> "authenticate_user", username |-> "alice", password |-> "pw"],
      [op |-> "authenticate_user", username |-> "alice",
       password |-> "guess"],
      [op |-> "delete_expense", expense_id |-> LockExpense,
       user_id |-> LockUser],
      [op |-> "set_wallet_balances", user_id |-> LockUser,
       upi_balance |-> MaxBalance, cash_balance |-> 0],
      [op |-> "cache_response", prompt |-> "p1", response |-> "{json}"] }
    \cup { [op |-> "save_expense", data |-> d] :
           d \in { x \in ExpenseData : /\ x.amount = 1
                                       /\ x.payment_method = "UPI"
                                       /\ x.category = "Food" } }
    \cup { [op |-> "update_expense", expense_id |-> LockExpense,
            user_id |-> LockUser, data |-> d] :
           d \in { x \in UpdatedData : /\ x.amount = MaxAmount
                                       /\ x.category = "Travel" } }

\* A thread outside every call.
Idle(kind) ==
    [pc |-> "idle", call |-> [op |-> ""], found |-> None, k |-> 0,
     steps |-> << >>, base |-> << >>, kind |-> kind]

\* What a method does once it holds the lock: it returns or raises before
\* its first write (Exit), or runs statements that leave the pending tables
\* steps[1], steps[2], ... and then commits (Run).
Exit(kind) == [kind |-> kind, steps |-> << >>]
Run(steps) == [kind |-> "pending", steps |-> steps]

\* The body of each method inside `with self.lock`, on the tables db its
\* connection reads; found is the row authenticate_user selected before it
\* took the lock.
Statements(c, found, db) ==
    CASE c.op = "create_user" ->
            LET s1 == [db EXCEPT !.users =
                         Append(@, [username |-> c.username,
                                    password_hash |-> _hash_value(c.password)])]
                s2 == [s1 EXCEPT !.wallets =
                         InsertWalletOrIgnore(@, Len(s1.users))]
            IN  IF \E i \in DOMAIN db.users :
                       db.users[i].username = c.username
                THEN Exit("False")
                ELSE Run(<<s1, s2>>)
      [] c.op = "authenticate_user" ->
            Run(<<[db EXCEPT !.wallets =
                     InsertWalletOrIgnore(@, (CHOOSE u \in found : TRUE).id)]>>)
      [] c.op = "save_expense" ->
            LET d   == c.data
                method == Get(d.payment_method, "Cash")
                row == [user_id |-> d.user_id, category |-> d.category,
                        title |-> d.title, amount |-> d.amount,
                        date |-> d.date, notes |-> Get(d.notes, ""),
                        payment_method |-> method]
                s1  == UpdateWallet(db, d.user_id, Column(method), -d.amount)
                s2  == InsertExpense(s1, row)
            IN  IF d.user_id \notin DOMAIN db.wallets
                THEN Exit("TypeError")
                ELSE IF Short(db.wallets[d.user_id][Column(method)], d.amount)
                THEN Exit("Insufficient")
                ELSE Run(<<s1, s2>>)
      [] c.op = "delete_expense" ->
            LET rows == SelectIn(db.expenses, c.expense_id, c.user_id)
                old  == CHOOSE e \in rows : TRUE
                s1   == UpdateWallet(db, c.user_id,
                                     Column(old.payment_method), old.amount)
                s2   == DeleteExpenseRow(s1, c.expense_id, c.user_id)
            IN  IF rows = NoRow THEN Exit("False") ELSE Run(<<s1, s2>>)
      [] c.op = "update_expense" ->
            LET rows == SelectIn(db.expenses, c.expense_id, c.user_id)
                old  == CHOOSE e \in rows : TRUE
                d    == c.data
                temp == TempBalances(db.wallets[c.user_id], old)
                s1   == UpdateWallet(db, c.user_id,
                                     Column(old.payment_method), old.amount)
                s2   == UpdateWallet(s1, c.user_id,
                                     Column(d.payment_method), -d.amount)
                s3   == UpdateExpenseRow(s2, c.expense_id, c.user_id, d)
            IN  IF rows = NoRow
                THEN Exit("NotFound")
                ELSE IF c.user_id \notin DOMAIN db.wallets
                THEN Exit("TypeError")
                ELSE IF Short(temp[Column(d.payment_method)], d.amount)
                THEN Exit("Insufficient")
                ELSE Run(<<s1, s2, s3>>)
      [] c.op = "set_wallet_balances" ->
            Run(<<SetWallet(db, c.user_id, c.upi_balance, c.cash_balance)>>)
      [] c.op = "cache_response" ->
            Run(<<[db EXCEPT !.gemini_cache =
                     InsertOrReplace(@, _hash_value(c.prompt), c.response)]>>)

\* What a method returns after its commit.
Success(op) ==
    CASE op \in {"save_expense", "update_expense"} -> ""
      [] op \in {"create_user", "delete_expense", "set_wallet_balances"}
            -> "True"
      [] op = "authenticate_user" -> "user"
      [] op = "cache_response" -> "None"

\* What a method returns, or that it raises, when a statement or the commit
\* raises: save_expense and update_expense roll back and return the error
\* text, delete_expense rolls back and returns False, set_wallet_balances
\* returns False; the others have no handler for it.
Failure(op) ==
    CASE op \in {"save_expense", "update_expense"} -> "DatabaseError"
      [] op \in {"delete_expense", "set_wallet_balances"} -> "False"
      [] op \in {"create_user", "authenticate_user", "cache_response"}
            -> "Exception"

\* The threads inside a call.
InFlight == { t \in Threads : threads[t].pc \notin {"idle", "done"} }

\* The threads inside `with self.lock`.
InLock == { t \in Threads : threads[t].pc \in {"locked", "writing", "exiting"} }

\* One user with a wallet and at most one expense; the threads outside
\* every call.
LockInit ==
    /\ users = <<[username |-> "alice", password_hash |-> _hash_value("pw")]>>
    /\ \E upi \in {0, 1} :
          wallets = (LockUser :> [upi_balance |-> upi, cash_balance |-> 0])
    /\ \E n \in {0, 1} :
          /\ expense_seq = n
          /\ expenses = [i \in 1..n |->
                           [user_id |-> LockUser, category |-> "Food",
                            title |-> "lunch", amount |-> 1,
                            date |-> isoformat(1),
                            notes |-> "", payment_method |-> "UPI"]]
    /\ ret = Returned("_init_database", "")
    /\ call = [user_id |-> 0, expense_id |-> 0, fault |-> 0, old |-> NoRow]
    /\ before_save = NoSave
    /\ calls = MaxCalls - LockCommits
    /\ lock = NoThread
    /\ threads = [t \in Threads |-> Idle("")]
    /\ initial = << >>
    /\ result = << >>
    /\ gemini_cache = << >>
    /\ cached = << >>
    /\ twin = << >>
    /\ asked = NoQuery
    /\ model = {}

\* A session calls a method.  authenticate_user starts with its SELECT; the
\* others start at `with self.lock`.
invoke(t, c) ==
    /\ threads[t].pc \in {"idle", "done"}
    /\ calls + Cardinality(InFlight) < MaxCalls
    /\ c.op = "save_expense" =>
          expense_seq + Cardinality({ u \in InFlight :
                            threads[u].call.op = "save_expense" }) < MaxExpenses
    /\ threads' = [threads EXCEPT ![t] =
          [Idle("pending") EXCEPT
              !.pc = IF c.op = "authenticate_user" THEN "select"
                                                    ELSE "waiting",
              !.call = c]]
    /\ UNCHANGED <<users, wallets, expenses, expense_seq, ret, call,
                   before_save, calls, lock, initial, result, gemini_cache,
                   cached, twin, asked,
                   model>>

\* authenticate_user line 98: the SELECT on users, before the lock; no row
\* found returns None.
select(t) ==
    /\ threads[t].pc = "select"
    /\ LET c    == threads[t].call
           user == SelectUser(c.username, _hash_value(c.password))
       IN  threads' = [threads EXCEPT ![t] =
              IF user = {}
              THEN [@ EXCEPT !.pc = "done", !.kind = "None"]
              ELSE [@ EXCEPT !.pc = "waiting", !.found = user]]
    /\ UNCHANGED <<users, wallets, expenses, expense_seq, ret, call,
                   before_save, calls, lock, initial, result, gemini_cache,
                   cached, twin, asked,
                   model>>

\* `with self.lock`: lines 82, 100, 111, 137, 156, 200, 255.
enter(t) ==
    /\ threads[t].pc = "waiting"
    /\ WithLock(threads[t].call.op) => LockFree
    /\ lock' = IF WithLock(threads[t].call.op) THEN t ELSE lock
    /\ threads' = [threads EXCEPT ![t].pc = "locked"]
    /\ UNCHANGED <<users, wallets, expenses, expense_seq, ret, call,
                   before_save, calls, initial, result, gemini_cache,
                   cached, twin, asked,
                   model>>

\* The SELECTs and checks of the method on the committed tables, up to its
\* first write.
begin(t) ==
    /\ threads[t].pc = "locked"
    /\ LET body == Statements(threads[t].call, threads[t].found, Tables)
       IN  threads' = [threads EXCEPT ![t] =
              IF body.kind = "pending"
              THEN [@ EXCEPT !.pc = "writing", !.steps = body.steps,
                             !.base = Tables]
              ELSE [@ EXCEPT !.pc = "exiting", !.kind = body.kind]]
    /\ UNCHANGED <<users, wallets, expenses, expense_seq, ret, call,
                   before_save, calls, lock, initial, result, gemini_cache,
                   cached, twin, asked,
                   model>>

\* The next INSERT / UPDATE / DELETE of the method: it joins the pending
\* statements of the connection, or it raises and the pending ones are
\* rolled back (conn.rollback(), or the close of the connection).
execute(t) ==
    /\ threads[t].pc = "writing"
    /\ threads[t].k < Len(threads[t].steps)
    /\ \/ /\ threads' = [threads EXCEPT ![t].k = @ + 1]
          /\ StoreAll(Visible(Tables, threads[t].steps[threads[t].k + 1]))
       \/ /\ threads' = [threads EXCEPT ![t] =
                [@ EXCEPT !.pc = "exiting",
                          !.kind = Failure(threads[t].call.op)]]
          /\ StoreAll(Rollback(threads[t].base, Tables))
    /\ UNCHANGED <<ret, call, before_save, calls, lock, initial, result,
                   cached, twin, asked,
                   model>>

\* conn.commit(): the pending statements become the committed tables, or
\* the commit raises and nothing is stored.
commit(t) ==
    /\ threads[t].pc = "writing"
    /\ threads[t].k = Len(threads[t].steps)
    /\ \/ /\ threads' = [threads EXCEPT ![t] =
                [@ EXCEPT !.pc = "exiting",
                          !.kind = Success(threads[t].call.op)]]
          /\ StoreAll(Commit(threads[t].steps[threads[t].k]))
          /\ calls' = calls + 1
       \/ /\ threads' = [threads EXCEPT ![t] =
                [@ EXCEPT !.pc = "exiting",
                          !.kind = Failure(threads[t].call.op)]]
          /\ StoreAll(Rollback(threads[t].base, Tables))
          /\ calls' = calls
    /\ UNCHANGED <<ret, call, before_save, lock, initial, result, cached,
                   twin, asked,
                   model>>

\* The end of the `with self.lock` block, reached by every return and every
\* exception of the block.
release(t) ==
    /\ threads[t].pc = "exiting"
    /\ Released(threads[t].kind)
    /\ lock' = IF lock = t THEN NoThread ELSE lock
    /\ threads' = [threads EXCEPT ![t] =
          [@ EXCEPT !.pc = "done", !.k = 0, !.steps = << >>,
                    !.base = << >>]]
    /\ UNCHANGED <<users, wallets, expenses, expense_seq, ret, call,
                   before_save, calls, initial, result, gemini_cache,
                   cached, twin, asked,
                   model>>

\* The steps of the threads that call the writing methods.
WriterNext ==
    \/ \E t \in Threads, c \in LockCalls : invoke(t, c)
    \/ \E t \in Threads : select(t)
    \/ \E t \in Threads : enter(t)
    \/ \E t \in Threads : begin(t)
    \/ \E t \in Threads : execute(t)
    \/ \E t \in Threads : commit(t)
    \/ \E t \in Threads : release(t)

\* The writing threads, and the reading calls of other sessions at any
\* moment between their steps.
LockNext ==
    \/ WriterNext
    \/ get_wallet_balances(LockUser)
    \/ get_expense_by_id(LockExpense, LockUser)
    \/ get_filtered_expenses(LockUser, isoformat(1), isoformat(10), << >>,
                             <<0, Infinity>>)

LockSpec == LockInit /\ [][LockNext]_vars

\* The scheduler runs every thread that can take a step, and the lock is
\* fair: a thread that can take the lock again and again takes it.
FairLockSpec ==
    /\ LockInit
    /\ [][WriterNext]_vars
    /\ \A t \in Threads :
          /\ WF_vars(select(t))
          /\ SF_vars(enter(t))
          /\ WF_vars(begin(t))
          /\ WF_vars(execute(t))
          /\ WF_vars(commit(t))
          /\ WF_vars(release(t))

(***************************************************************************)
(* GeminiClient.parse_expense_input and the response cache.                *)
(***************************************************************************)
\* The texts typed or spoken, and the days the calls are made on.
InputTexts == {"lunch 1", "cab 2"}
Today      == {"2024-01-01", "2024-01-02"}

\* Expense dicts: one that passes _validate_expense_data, and one whose
\* payment_method is neither 'UPI' nor 'Cash'.
ValidData ==
    [category |-> "Food", title |-> "lunch", amount |-> 1,
     date |-> "2024-01-01", payment_method |-> "UPI"]
CardData == [ValidData EXCEPT !.payment_method = "Card"]

\* The texts of the cache column and of the model's replies: the empty
\* string, the JSON of the two dicts, a reply that wraps the JSON in prose,
\* and a text with no JSON in it.
CacheTexts == {"", "{valid}", "{card}", "sorry"}
Replies    == {"{valid}", "json: {valid}", "{card}", "sorry", "raise"}

\* json.loads(text): the dict, or None for JSONDecodeError.
loads(text) ==
    CASE text = "{valid}" -> {ValidData}
      [] text = "{card}"  -> {CardData}
      [] OTHER            -> None

\* json.dumps(data)
dumps(data) == IF data = ValidData THEN "{valid}" ELSE "{card}"

\* The prompt names the day of the call and the input text.
_build_expense_prompt(input_text, today_date) ==
    "today: " \o today_date \o " Input: " \o input_text

\* re.search(r'\{.*\}', text) and json.loads of the match.
_extract_json_from_response(text) ==
    IF text = "json: {valid}" THEN loads("{valid}") ELSE loads(text)

\* Mutant of _validate_expense_data: the payment_method is not checked.
_validate_expense_data_AnyMethod(data) ==
    DOMAIN data = {"category", "title", "amount", "date", "payment_method"}

\* The five fields are present and payment_method is 'UPI' or 'Cash' (the
\* amount and the date of the dicts of the model convert).
_validate_expense_data(data) ==
    /\ DOMAIN data = {"category", "title", "amount", "date", "payment_method"}
    /\ data.payment_method \in {"UPI", "Cash"}

parse_expense_input(input_text, today_date, reply) ==
    LET prompt      == _build_expense_prompt(input_text, today_date)
        prompt_hash == _hash_value(prompt)
        cached_response == IF prompt_hash \in DOMAIN gemini_cache
                           THEN {gemini_cache[prompt_hash]}
                           ELSE None
        \* `if cached_response:` and json.loads without JSONDecodeError
        hit    == \E text \in cached_response :
                      text # "" /\ loads(text) # None
        parsed_data == _extract_json_from_response(reply)
        valid  == /\ reply # "raise"
                  /\ \E data \in parsed_data : _validate_expense_data(data)
    IN  /\ ret' = Returned("parse_expense_input", "")
        /\ call' = [input_text |-> input_text, today_date |-> today_date,
                    reply |-> reply,
                    called |-> model # None /\ ~hit]
        /\ IF model = None
           THEN \* if not self.model: return None
                /\ result' = None
                /\ gemini_cache' = gemini_cache
           ELSE IF hit
           THEN /\ result' = loads(CHOOSE text \in cached_response : TRUE)
                /\ gemini_cache' = gemini_cache
           ELSE IF valid
           THEN /\ gemini_cache' =
                      InsertOrReplace(gemini_cache, prompt_hash,
                                      dumps(CHOOSE d \in parsed_data : TRUE))
                /\ result' = parsed_data
           ELSE /\ result' = None
                /\ gemini_cache' = gemini_cache
        /\ UNCHANGED <<users, wallets, expenses, expense_seq, before_save,
                       calls, lock, threads, initial, cached, twin, asked,
                       model>>

\* The client with or without a model, on a database whose cache a process
\* before this one may have filled.
ParseInit ==
    /\ users = << >>
    /\ wallets = << >>
    /\ expenses = << >>
    /\ expense_seq = 0
    /\ ret = Returned("_init_database", "")
    /\ call = [user_id |-> 0, expense_id |-> 0, fault |-> 0, old |-> NoRow]
    /\ before_save = NoSave
    /\ calls = 0
    /\ lock = NoThread
    /\ threads = << >>
    /\ initial = << >>
    /\ result = << >>
    /\ \E keys \in SUBSET { _hash_value(_build_expense_prompt(i, "2024-01-01")) :
                           i \in InputTexts } :
          gemini_cache = [k \in keys |-> "{valid}"]
    /\ cached = << >>
    /\ twin = << >>
    /\ asked = NoQuery
    /\ model \in {None, {"gemini-2.0-flash"}}

ParseNext ==
    \/ \E input_text \in InputTexts, today_date \in Today, reply \in Replies :
          parse_expense_input(input_text, today_date, reply)
    \/ \E input_text \in InputTexts, response \in CacheTexts :
          cache_response(_build_expense_prompt(input_text, "2024-01-01"),
                         response)

ParseSpec == ParseInit /\ [][ParseNext]_vars

(***************************************************************************)
(* Vocabulary of the properties.                                           *)
(***************************************************************************)
LedgerOps == {"save_expense", "update_expense", "delete_expense"}

\* The balance of a wallet row for a payment method, and the other method.
BalanceOf(wallet, method) ==
    IF method = "UPI" THEN wallet.upi_balance ELSE wallet.cash_balance

OtherMethod(method) == IF method = "UPI" THEN "Cash" ELSE "UPI"

\* A wallet row with the balance of one method changed by delta.
Credited(wallet, method, delta) ==
    IF method = "UPI"
    THEN [upi_balance  |-> wallet.upi_balance + delta,
          cash_balance |-> wallet.cash_balance]
    ELSE [upi_balance  |-> wallet.upi_balance,
          cash_balance |-> wallet.cash_balance + delta]

NonNegative(table) ==
    \A u \in DOMAIN table :
        table[u].upi_balance >= 0 /\ table[u].cash_balance >= 0

\* The expenses table without the row of one id.
Without(table, id) == [i \in DOMAIN table \ {id} |-> table[i]]

\* The old row of the last delete_expense / update_expense call.
OldRow(c) == CHOOSE e \in c.old : TRUE

(***************************************************************************)
(* C1  A save_expense, update_expense or delete_expense call that starts   *)
(* with every balance >= 0 ends with every balance >= 0 (so the balances   *)
(* stay >= 0 along every sequence of such calls).                          *)
(* Violated: an expense with a negative amount is accepted, and deleting   *)
(* it debits the wallet without a balance check.                           *)
(***************************************************************************)
C1_BalancesStayNonNegative ==
    [][(ret'.op \in LedgerOps /\ NonNegative(wallets))
          => NonNegative(wallets')]_vars

(***************************************************************************)
(* C2  save_expense for method m with amount > the balance for m returns   *)
(* the insufficient-funds message for m with the current balance and the   *)
(* required amount, and leaves wallets and expenses as they were.          *)
(***************************************************************************)
C2_SaveInsufficient ==
    [][ret'.op = "save_expense" =>
        \A d \in ExpenseData :
            (/\ d.user_id = call'.user_id
             /\ d.user_id \in DOMAIN wallets
             /\ d.amount > BalanceOf(wallets[d.user_id], d.payment_method)
             /\ save_expense(d, call'.fault))
            => /\ ret' = Ret("save_expense", "Insufficient", d.payment_method,
                             BalanceOf(wallets[d.user_id], d.payment_method),
                             d.amount)
               /\ wallets' = wallets
               /\ expenses' = expenses]_vars

C2_Witness ==
    /\ ret.op = "save_expense"
    /\ ret.kind = "Insufficient"
    /\ ret.required > ret.available
    /\ call.user_id \in DOMAIN wallets
    /\ BalanceOf(wallets[call.user_id], ret.method) = ret.available
    /\ expenses # << >>

(***************************************************************************)
(* C3  save_expense for method m with amount <= the balance for m (the     *)
(* storage not failing) returns "", decreases the balance for m by amount, *)
(* leaves every other balance unchanged, and adds one row carrying the     *)
(* given user, category, title, amount, date, notes and method; the        *)
(* existing rows are unchanged.                                            *)
(***************************************************************************)
C3_SaveDebitsAndInserts ==
    [][(ret'.op = "save_expense" /\ call'.fault = 0) =>
        \A d \in ExpenseData :
            (/\ d.user_id = call'.user_id
             /\ d.user_id \in DOMAIN wallets
             /\ d.amount <= BalanceOf(wallets[d.user_id], d.payment_method)
             /\ save_expense(d, 0))
            => /\ ret'.kind = ""
               /\ wallets' = [wallets EXCEPT ![d.user_id] =
                                Credited(@, d.payment_method, -d.amount)]
               /\ expense_seq' \notin DOMAIN expenses
               /\ DOMAIN expenses' = DOMAIN expenses \cup {expense_seq'}
               /\ \A i \in DOMAIN expenses : expenses'[i] = expenses[i]
               /\ expenses'[expense_seq'] =
                    [user_id |-> d.user_id, category |-> d.category,
                     title |-> d.title, amount |-> d.amount,
                     date |-> d.date,
                     notes |-> IF d.notes = Missing THEN "" ELSE d.notes,
                     payment_method |-> d.payment_method]]_vars

\* A save_expense that spent the whole balance of its method, with an
\* earlier row in the table.
C3_Witness ==
    /\ ret.op = "save_expense"
    /\ ret.kind = ""
    /\ before_save # NoSave
    /\ expenses[expense_seq].amount > 0
    /\ BalanceOf(before_save[call.user_id],
                 expenses[expense_seq].payment_method)
         = expenses[expense_seq].amount
    /\ BalanceOf(wallets[call.user_id],
                 expenses[expense_seq].payment_method) = 0
    /\ Cardinality(DOMAIN expenses) = 2

C5_UpdateInsufficient ==
    [][(ret'.op = "update_expense" /\ call'.old # NoRow) =>
        \A d \in UpdatedData :
            update_expense(call'.expense_id, call'.user_id, d, call'.fault)
            => LET old       == expenses[call'.expense_id]
                   projected ==
                       BalanceOf(wallets[call'.user_id], d.payment_method)
                       + (IF old.payment_method = d.payment_method
                          THEN old.amount ELSE 0)
               IN  /\ (ret'.kind = "Insufficient") <=> (projected < d.amount)
                   /\ (ret'.kind = "Insufficient") =>
                        /\ ret' = Ret("update_expense", "Insufficient",
                                      d.payment_method, projected, d.amount)
                        /\ wallets' = wallets
                        /\ expenses' = expenses]_vars

\* An update_expense was refused with an available balance that is not the
\* stored balance of that method: the old debit was reversed in it.
C5_Witness ==
    /\ ret.op = "update_expense"
    /\ ret.kind = "Insufficient"
    /\ call.old # NoRow
    /\ OldRow(call).payment_method = ret.method
    /\ OldRow(call).amount > 0
    /\ ret.available
         = BalanceOf(wallets[call.user_id], ret.method) + OldRow(call).amount

(***************************************************************************)
(* C6  An update_expense that returns "" and changes the payment method    *)
(* from m_old to m_new increases the balance of m_old by the old amount,   *)
(* decreases the balance of m_new by the new amount, and rewrites the      *)
(* row's category, title, amount, date, notes and method, keeping its id   *)
(* and owner; no other row and no other wallet changes.                    *)
(***************************************************************************)
C6_UpdateSwitchesMethod ==
    [][(ret'.op = "update_expense" /\ ret'.kind = "" /\ call'.old # NoRow) =>
        \A d \in UpdatedData :
            (/\ update_expense(call'.expense_id, call'.user_id, d, 0)
             /\ d.payment_method # expenses[call'.expense_id].payment_method)
            => LET id      == call'.expense_id
                   user_id == call'.user_id
                   old     == expenses[id]
               IN  /\ wallets' = [wallets EXCEPT ![user_id] =
                         Credited(Credited(@, old.payment_method, old.amount),
                                  d.payment_method, -d.amount)]
                   /\ expenses' = [expenses EXCEPT ![id] =
                         [user_id |-> old.user_id, category |-> d.category,
                          title |-> d.title, amount |-> d.amount,
                          date |-> d.date,
                          notes |-> IF d.notes = Missing THEN "" ELSE d.notes,
                          payment_method |-> d.payment_method]]
                   /\ expense_seq' = expense_seq]_vars

\* An update_expense has moved an expense to the other method with another
\* amount.
C6_Witness ==
    /\ ret.op = "update_expense"
    /\ ret.kind = ""
    /\ call.old # NoRow
    /\ call.expense_id \in DOMAIN expenses
    /\ OldRow(call).payment_method # expenses[call.expense_id].payment_method
    /\ OldRow(call).amount # expenses[call.expense_id].amount
    /\ OldRow(call).amount > 0
    /\ expenses[call.expense_id].amount > 0
    /\ OldRow(call).category # expenses[call.expense_id].category

(***************************************************************************)
(* C7  An update_expense whose new method is the old one, when it returns  *)
(* "", changes that method's balance by (old amount - new amount) and no   *)
(* other balance; and when the amount is unchanged too (the storage not    *)
(* failing) it returns "" and leaves the balances unchanged.               *)
(* Violated: with a negative balance of that method the unchanged update   *)
(* is refused for insufficient funds.                                      *)
(***************************************************************************)
C7_UpdateSameMethod ==
    [][(ret'.op = "update_expense" /\ call'.old # NoRow /\ call'.fault = 0) =>
        \A d \in UpdatedData :
            (/\ update_expense(call'.expense_id, call'.user_id, d, 0)
             /\ d.payment_method = expenses[call'.expense_id].payment_method)
            => LET user_id == call'.user_id
                   old     == expenses[call'.expense_id]
               IN  /\ ret'.kind = "" =>
                         wallets' = [wallets EXCEPT ![user_id] =
                            Credited(@, old.payment_method,
                                     old.amount - d.amount)]
                   /\ d.amount = old.amount =>
                         (ret'.kind = "" /\ wallets' = wallets)]_vars

(***************************************************************************)
(* C8  delete_expense and update_expense with an expense id that does not  *)
(* exist, or whose row belongs to another user than the user_id passed,    *)
(* return False / the not-found message and change no wallet and no        *)
(* expense row.                                                            *)
(***************************************************************************)
C8_NotFoundOrNotOwned ==
    [][(/\ ret'.op \in {"delete_expense", "update_expense"}
        /\ \/ call'.expense_id \notin DOMAIN expenses
           \/ expenses[call'.expense_id].user_id # call'.user_id)
       => /\ ret'.kind = IF ret'.op = "delete_expense" THEN "False"
                                                      ELSE "NotFound"
          /\ wallets' = wallets
          /\ expenses' = expenses
          /\ expense_seq' = expense_seq]_vars

\* A delete_expense was refused for a row that exists under another user,
\* the caller having a wallet of their own.
C8_Witness ==
    /\ ret.op = "delete_expense"
    /\ ret.kind = "False"
    /\ call.expense_id \in DOMAIN expenses
    /\ expenses[call.expense_id].user_id # call.user_id
    /\ call.user_id \in DOMAIN wallets
    /\ wallets[expenses[call.expense_id].user_id] # wallets[call.user_id]

(***************************************************************************)
(* C9  When a storage step fails after the first wallet write of           *)
(* save_expense, delete_expense or update_expense, the call reports the    *)
(* failure and wallets and expenses are exactly those from before it.      *)
(***************************************************************************)
C9_RollbackOnStorageFailure ==
    [][(ret'.op \in LedgerOps /\ call'.fault >= 2)
       => /\ ret'.kind = IF ret'.op = "delete_expense" THEN "False"
                                                      ELSE "DatabaseError"
          /\ wallets' = wallets
          /\ expenses' = expenses
          /\ expense_seq' = expense_seq]_vars

\* An update_expense of a positive amount failed at its last statement.
C9_Witness ==
    /\ ret.op = "update_expense"
    /\ ret.kind = "DatabaseError"
    /\ call.fault = 3
    /\ OldRow(call).amount > 0
    /\ expenses[call.expense_id] = OldRow(call)

(***************************************************************************)
(* C10  set_wallet_balances with a negative upi_balance or cash_balance    *)
(* returns False and leaves the stored balances unchanged.                 *)
(* Violated: the method has no check; it stores the negative balance and   *)
(* returns True.                                                           *)
(***************************************************************************)
C10_SetRejectsNegative ==
    [][ret'.op = "set_wallet_balances" =>
        \A upi \in BalanceInputs, cash \in BalanceInputs :
            (/\ upi < 0 \/ cash < 0
             /\ set_wallet_balances(call'.user_id, upi, cash, call'.fault))
            => (ret'.kind = "False" /\ wallets' = wallets)]_vars

(***************************************************************************)
(* C11  Every stored expense has amount > 0 and payment_method in          *)
(* {UPI, Cash}: save_expense and update_expense reject a non-positive      *)
(* amount or another payment method before they write anything.            *)
(* Violated: neither method checks the amount's sign; an amount of -1      *)
(* passes `balance < amount` and is stored.                                *)
(***************************************************************************)
C11_StoredExpensesValid ==
    \A i \in DOMAIN expenses :
        /\ expenses[i].amount > 0
        /\ expenses[i].payment_method \in {"UPI", "Cash"}

(***************************************************************************)
(* Vocabulary of the thread properties.                                    *)
(***************************************************************************)
RECURSIVE SumOver(_, _)
\* The sum of amount[t] over the threads t of a set.
SumOver(set, amount) ==
    IF set = {} THEN 0
    ELSE LET t == CHOOSE x \in set : TRUE
         IN  amount[t] + SumOver(set \ {t}, amount)

\* The threads whose call has returned "".
Succeeded == { t \in Threads : threads[t].pc = "done" /\ threads[t].kind = "" }

\* The amount of a thread's call, counted on the method the call names.
AmountOn(th, method) ==
    IF th.data.payment_method = method THEN th.data.amount ELSE 0

\* What a thread's call takes from the balance of a method: the amount for a
\* save_expense; for an update_expense the new amount, less the amount of
\* the row it replaced where that row was paid by the method.
NetDebitOn(th, method) ==
    AmountOn(th, method)
    - (IF th.op = "update_expense" /\ th.old # NoRow
          /\ (CHOOSE e \in th.old : TRUE).payment_method = method
       THEN (CHOOSE e \in th.old : TRUE).amount
       ELSE 0)

DayOf(row) == strptime(row.date)

\* The rows a query of the recorded arguments should return.
Wanted(c) ==
    { i \in DOMAIN expenses :
        /\ expenses[i].user_id = c.user_id
        /\ strptime(c.start_date) <= DayOf(expenses[i])
        /\ DayOf(expenses[i]) <= strptime(c.end_date)
        /\ c.amount_range # << >> =>
              /\ c.amount_range[1] <= expenses[i].amount
              /\ expenses[i].amount <= c.amount_range[2]
        /\ c.categories # << >> =>
              expenses[i].category \in Values(c.categories) }

(***************************************************************************)
(* C13  get_filtered_expenses returns exactly the given user's expenses    *)
(* whose date lies in [start_date, end_date], whose amount lies in         *)
(* [min, max], and whose category is one of categories when that list is   *)
(* not empty, each once; an empty result when there is none.               *)
(* Violated: the dates are compared as text, and a stored date with a      *)
(* one-digit day ('2024-01-5') falls outside ['2024-01-01', '2024-01-10'].  *)
(***************************************************************************)
C13_FilterReturnsExactlyMatching ==
    ret.op = "get_filtered_expenses" =>
        /\ Values(result) = Wanted(call)
        /\ Len(result) = Cardinality(Wanted(call))

(***************************************************************************)
(* C14  The sequence get_filtered_expenses returns is ordered by date      *)
(* descending, and among expenses of the same date by id descending.       *)
(* Violated: the order is that of the date texts, in which '2024-01-5'     *)
(* comes after '2024-01-10'.                                               *)
(***************************************************************************)
C14_OrderedByDateThenId ==
    ret.op = "get_filtered_expenses" =>
        \A i \in DOMAIN result, j \in DOMAIN result :
            i < j =>
                \/ DayOf(expenses[result[i]]) > DayOf(expenses[result[j]])
                \/ /\ DayOf(expenses[result[i]]) = DayOf(expenses[result[j]])
                   /\ result[i] > result[j]

(***************************************************************************)
(* C15  get_cached_response(p) returns exactly the response last cached    *)
(* for p (so a cache_response(p, r) followed by it returns r, and a second *)
(* cache_response of p replaces the first), the table holds one entry per  *)
(* cached prompt, and a prompt never cached gives no hit.                  *)
(***************************************************************************)
C15_CacheRoundTrip ==
    /\ ret.op = "get_cached_response" =>
          result = IF call.prompt \in DOMAIN cached
                   THEN {cached[call.prompt].response}
                   ELSE None
    /\ ret.op = "cache_response" =>
          /\ _hash_value(call.prompt) \in DOMAIN gemini_cache
          /\ gemini_cache[_hash_value(call.prompt)] = call.response
    /\ Cardinality(DOMAIN gemini_cache) = Cardinality(DOMAIN cached)

\* A prompt whose response was replaced by another one has been read: the
\* read returned the later response; a second prompt is cached, a third
\* is not.
C15_Witness ==
    /\ ret.op = "get_cached_response"
    /\ call.prompt \in DOMAIN cached
    /\ cached[call.prompt].replaced
    /\ result = {cached[call.prompt].response}
    /\ Cardinality(DOMAIN cached) = 2
    /\ Cardinality(DOMAIN gemini_cache) = 2

(***************************************************************************)
(* Vocabulary of the account properties.                                   *)
(***************************************************************************)
ZeroWallet == [upi_balance |-> 0, cash_balance |-> 0]

(***************************************************************************)
(* C16  get_wallet_balances changes no table, and for a user without a     *)
(* wallet row it returns upi_balance = 0 and cash_balance = 0.             *)
(***************************************************************************)
C16_BalancesDefaultToZero ==
    [][ret'.op = "get_wallet_balances" =>
        /\ UNCHANGED <<users, wallets, expenses, expense_seq, gemini_cache>>
        /\ call'.user_id \notin DOMAIN wallets => result' = {ZeroWallet}
        /\ call'.user_id \in DOMAIN wallets =>
              result' = {wallets[call'.user_id]}]_vars

\* The balances of a registered user without a wallet row have been read,
\* another user having a wallet.
C16_Witness ==
    /\ ret.op = "get_wallet_balances"
    /\ call.user_id \notin DOMAIN wallets
    /\ call.user_id \in DOMAIN users
    /\ wallets # << >>
    /\ result = {ZeroWallet}

(***************************************************************************)
(* C17  A create_user that returns True adds the user and a wallet with    *)
(* both balances zero; an authenticate_user that finds the user leaves the *)
(* user with a wallet row, a zero one added when there was none and the    *)
(* table untouched otherwise; one that fails changes nothing.              *)
(***************************************************************************)
C17_WalletPerUser ==
    [][/\ (ret'.op = "create_user" /\ ret'.kind = "True") =>
            /\ Len(users') = Len(users) + 1
            /\ Len(users') \notin DOMAIN wallets
            /\ wallets' = (Len(users') :> ZeroWallet) @@ wallets
       /\ ret'.op = "authenticate_user" =>
            /\ users' = users
            /\ result' = None => wallets' = wallets
            /\ \A u \in result' :
                  /\ u.id \in DOMAIN wallets'
                  /\ u.id \in DOMAIN wallets => wallets' = wallets
                  /\ u.id \notin DOMAIN wallets =>
                        wallets' = (u.id :> ZeroWallet) @@ wallets
      ]_vars

\* An authenticate_user has given a registered user the wallet row the user
\* lacked, the wallet of another user keeping its non-zero balance.
C17_Witness ==
    /\ ret.op = "authenticate_user"
    /\ result # None
    /\ ~call.had_wallet
    /\ \A u \in result : wallets[u.id] = ZeroWallet
    /\ \E o \in DOMAIN wallets : wallets[o].upi_balance > 0

(***************************************************************************)
(* C18  create_user with a username that is already registered returns     *)
(* False and leaves the users and wallets tables as they were.             *)
(***************************************************************************)
C18_DuplicateUsername ==
    [][ret'.op = "create_user" =>
        \A username \in Usernames, password \in AccountPasswords :
            (/\ create_user(username, password)
             /\ \E i \in DOMAIN users : users[i].username = username)
            => /\ ret'.kind = "False"
               /\ users' = users
               /\ wallets' = wallets]_vars

\* A create_user was refused while the table holds two users, one of them
\* with a non-zero balance.
C18_Witness ==
    /\ ret.op = "create_user"
    /\ ret.kind = "False"
    /\ Len(users) = 2
    /\ \E u \in DOMAIN wallets : wallets[u].upi_balance # 0

(***************************************************************************)
(* Vocabulary of the twin property.                                        *)
(***************************************************************************)
\* The rows of a user in an expenses table, with their ids.
RowsOf(table, user_id) ==
    { <<i, table[i]>> : i \in { j \in DOMAIN table :
                                  table[j].user_id = user_id } }

(***************************************************************************)
(* C19  Two databases that differ only in the expenses of user A, on which *)
(* user B has made the same delete_expense / update_expense calls: every   *)
(* call returned the same on both, and B's wallet and B's expenses are the *)
(* same on both -- whether an id B named exists under A or not at all.     *)
(***************************************************************************)
C19_OtherUsersExpensesInvisible ==
    twin.calls = calls =>
        /\ ret = twin.ret
        /\ wallets[TwinCaller] = twin.wallets[TwinCaller]
        /\ RowsOf(expenses, TwinCaller) = RowsOf(twin.expenses, TwinCaller)

\* The caller's delete_expense named an id that exists under the other user
\* in the first database and not at all in the twin, and was answered on
\* both; the caller has a row of their own and a non-zero balance.
C19_Witness ==
    /\ twin.calls = calls
    /\ ret.op = "delete_expense"
    /\ call.expense_id \in DOMAIN expenses
    /\ expenses[call.expense_id].user_id = TwinOther
    /\ call.expense_id \notin DOMAIN twin.expenses
    /\ RowsOf(expenses, TwinCaller) # {}
    /\ wallets[TwinCaller].upi_balance > 0

(***************************************************************************)
(* C20  save_expense, update_expense and delete_expense answer every       *)
(* business-rule failure with a returned value; none of them raises, a     *)
(* call for a user without a wallet row included.                          *)
(* Violated: for a user_id without a wallet row the SELECT on wallets      *)
(* fetches None, and wallet['upi_balance'] raises TypeError outside the    *)
(* try block.                                                              *)
(***************************************************************************)
C20_FailuresAreReturned ==
    ret.op \in LedgerOps => ret.kind # "TypeError"

(***************************************************************************)
(* C22  A set_wallet_balances(user, upi, cash) that returns True, for a     *)
(* user who has a wallet row, sets that row to exactly (upi, cash); for a  *)
(* user_id without a wallet row it changes nothing.  In both cases no      *)
(* expense row, no user and no other wallet row changes.                   *)
(***************************************************************************)
C22_SetWalletFrame ==
    [][(ret'.op = "set_wallet_balances" /\ ret'.kind = "True") =>
        \A upi \in BalanceInputs, cash \in BalanceInputs :
            set_wallet_balances(call'.user_id, upi, cash, 0)
            => /\ expenses' = expenses
               /\ expense_seq' = expense_seq
               /\ users' = users
               /\ wallets' =
                    IF call'.user_id \in DOMAIN wallets
                    THEN [wallets EXCEPT ![call'.user_id] =
                            [upi_balance |-> upi, cash_balance |-> cash]]
                    ELSE wallets]_vars

\* A set_wallet_balances has given a user two different balances, the user
\* having an expense row and another user keeping another wallet.
C22_Witness ==
    /\ ret.op = "set_wallet_balances"
    /\ ret.kind = "True"
    /\ call.user_id \in DOMAIN wallets
    /\ wallets[call.user_id].upi_balance # wallets[call.user_id].cash_balance
    /\ \E i \in DOMAIN expenses : expenses[i].user_id = call.user_id
    /\ \E o \in DOMAIN wallets : wallets[o] # wallets[call.user_id]

\* C22 as stated: after a set_wallet_balances that returned True the user's
\* balances are the given ones.  Violated for a user_id without a wallet
\* row: the UPDATE matches no row and the method still returns True.
C22_SuccessStoresBalances ==
    [][(ret'.op = "set_wallet_balances" /\ ret'.kind = "True") =>
        \A upi \in BalanceInputs, cash \in BalanceInputs :
            set_wallet_balances(call'.user_id, upi, cash, 0)
            => /\ call'.user_id \in DOMAIN wallets'
               /\ wallets'[call'.user_id] =
                    [upi_balance |-> upi, cash_balance |-> cash]
               /\ expenses' = expenses]_vars

\* The decimal text of an expense identifier, as a `-> str` method would
\* have to return it.
Str(n) == <<"1", "2", "3", "4", "5", "6", "7", "8", "9">>[n]

(***************************************************************************)
(* C23  A save_expense that succeeds returns the empty string, and besides *)
(* the debit of the caller's wallet its only effect is one new row under a *)
(* fresh identifier: the rows stored before, the users and the wallets of  *)
(* the other users, and the response cache are as they were.               *)
(***************************************************************************)
C23_SaveReturnsEmptyAndOnlyInserts ==
    [][(ret'.op = "save_expense" /\ ret'.kind = "") =>
        /\ expense_seq' \notin DOMAIN expenses
        /\ DOMAIN expenses' = DOMAIN expenses \cup {expense_seq'}
        /\ \A i \in DOMAIN expenses : expenses'[i] = expenses[i]
        /\ expenses'[expense_seq'].user_id = call'.user_id
        /\ users' = users
        /\ DOMAIN wallets' = DOMAIN wallets
        /\ \A u \in DOMAIN wallets \ {call'.user_id} : wallets'[u] = wallets[u]
        /\ gemini_cache' = gemini_cache]_vars

\* A second expense has been saved next to an older row, another user
\* holding a wallet.
C23_Witness ==
    /\ ret.op = "save_expense"
    /\ ret.kind = ""
    /\ expense_seq >= 2
    /\ DOMAIN expenses = 1..expense_seq
    /\ \E u \in DOMAIN wallets : u # call.user_id

\* C23 as stated: the value returned by a successful save_expense is the
\* identifier of the new expense.  Violated by every successful call: the
\* method returns "".
C23_SaveReturnsIdentifier ==
    [][(ret'.op = "save_expense" /\ ret'.kind = "") =>
        /\ ret'.kind = Str(expense_seq')
        /\ DOMAIN expenses' = DOMAIN expenses \cup {expense_seq'}]_vars

\* The balance of a user for a method plus the amounts of the user's stored
\* expenses paid by that method.
LedgerTotal(wallet_table, expense_table, user_id, method) ==
    BalanceOf(wallet_table[user_id], method)
    + SumOver({ i \in DOMAIN expense_table :
                    /\ expense_table[i].user_id = user_id
                    /\ expense_table[i].payment_method = method },
              [i \in DOMAIN expense_table |-> expense_table[i].amount])

C28_OtherUsersUntouched ==
    [][ret'.op \in LedgerOps \cup {"set_wallet_balances"} =>
        /\ DOMAIN wallets' = DOMAIN wallets
        /\ \A u \in DOMAIN wallets \ {call'.user_id} : wallets'[u] = wallets[u]
        /\ \A i \in DOMAIN expenses :
              expenses[i].user_id # call'.user_id
              => i \in DOMAIN expenses' /\ expenses'[i] = expenses[i]
        /\ \A i \in DOMAIN expenses' \ DOMAIN expenses :
              expenses'[i].user_id = call'.user_id]_vars

\* A call of one user has changed that user's wallet while another user
\* holds a wallet and an expense row.
C28_Witness ==
    /\ ret.op \in LedgerOps
    /\ ret.kind = ""
    /\ \E i \in DOMAIN expenses : expenses[i].user_id = call.user_id
    /\ \E i \in DOMAIN expenses :
          /\ expenses[i].user_id # call.user_id
          /\ expenses[i].user_id \in DOMAIN wallets

\* The reading calls of the expense and wallet tables.
ReadOps == {"get_expense_by_id", "get_user_categories",
            "get_user_expense_years", "get_filtered_expenses",
            "get_wallet_balances"}

(***************************************************************************)
(* C21  A reading call (get_expense_by_id, get_user_categories,            *)
(* get_user_expense_years, get_filtered_expenses, get_wallet_balances)     *)
(* made with user_id U returns rows of U only, and when it repeats U's     *)
(* reading call before it, with only ledger calls of another user in       *)
(* between, it returns what that call returned.                            *)
(***************************************************************************)
C21_ReadsScopedToCaller ==
    [][ret'.op \in ReadOps =>
        /\ (asked.op = ret'.op /\ asked.call = call')
              => result' = asked.result
        /\ ret'.op = "get_expense_by_id"
              => \A e \in result' : e.user_id = call'.user_id
        /\ ret'.op = "get_filtered_expenses"
              => \A k \in DOMAIN result' :
                    expenses[result'[k]].user_id = call'.user_id]_vars

\* A reading call with a result to show has been repeated after ledger
\* calls of the other user, who holds rows and a changed wallet.
C21_Witness ==
    /\ asked.since > 0
    /\ \/ ret.op = "get_expense_by_id" /\ asked.result # None
       \/ ret.op = "get_user_categories" /\ Len(asked.result) > 0
    /\ \E i \in DOMAIN expenses : expenses[i].user_id = ScopeOther
    /\ wallets[ScopeOther].upi_balance # MaxBalance

(***************************************************************************)
(* C24  At most one thread is inside `with self.lock` of a writing method  *)
(* (create_user, save_expense, delete_expense, update_expense,             *)
(* set_wallet_balances, the wallet insert of authenticate_user,            *)
(* cache_response), and that thread holds the lock: the tables change only *)
(* at the commit of the thread that holds the lock, which took it before   *)
(* its first SELECT inside the block and still holds it after the commit.  *)
(***************************************************************************)
C24_OneThreadInsideLock ==
    [][/\ Cardinality(InLock') <= 1
       /\ \A t \in InLock' : lock' = t
       /\ Tables' # Tables =>
             /\ lock \in Threads
             /\ lock' = lock
             /\ threads[lock].pc = "writing"
             /\ threads'[lock].pc = "exiting"]_vars

\* A thread has pending statements while the other waits for the lock.
C24_Witness ==
    \E t \in Threads, u \in Threads :
        /\ threads[t].pc = "writing"
        /\ threads[t].k >= 1
        /\ lock = t
        /\ threads[u].pc = "waiting"
        /\ threads[u].call.op # threads[t].call.op

(***************************************************************************)
(* C25  Under fair scheduling every call of a writing method that has been *)
(* made returns (or raises), with the lock no longer held by its thread:   *)
(* whichever way the call leaves `with self.lock`, the lock is released,   *)
(* and a thread waiting for the lock gets it.                              *)
(***************************************************************************)
C25_EveryCallCompletes ==
    \A t \in Threads :
        (threads[t].pc \notin {"idle", "done"})
            ~> (threads[t].pc = "done" /\ lock # t)

\* A call has ended by an exception no handler caught, and the other
\* thread, which waited for the lock meanwhile, is now inside it.
C25_Witness ==
    \E t \in Threads, u \in Threads :
        /\ threads[t].pc = "done"
        /\ threads[t].kind \in {"Exception", "TypeError"}
        /\ threads[u].pc \in {"locked", "writing"}
        /\ lock = u

(***************************************************************************)
(* C26  A reading call (get_wallet_balances, get_filtered_expenses,        *)
(* get_expense_by_id) made while a writing call is under way reads the     *)
(* tables as they were before that call's first statement; one that        *)
(* repeats the reading call before it with no commit in between returns    *)
(* what that call returned; and the tables hold all statements of a call   *)
(* that committed and none of a call that was rolled back.                 *)
(***************************************************************************)
C26_ReadsSeeCommittedOnly ==
    [][ret'.op \in ReadOps =>
        /\ (asked.op = ret'.op /\ asked.call = call' /\ asked.calls = calls)
              => result' = asked.result
        /\ \A t \in Threads :
              /\ threads[t].pc = "writing" => Tables = threads[t].base
              /\ (threads[t].pc = "exiting" /\ Len(threads[t].steps) > 0) =>
                    Tables = IF threads[t].kind = Success(threads[t].call.op)
                             THEN threads[t].steps[Len(threads[t].steps)]
                             ELSE threads[t].base]_vars

\* get_wallet_balances has been repeated while a thread has a pending
\* statement that changes the caller's wallet row.
C26_Witness ==
    /\ ret.op = "get_wallet_balances"
    /\ asked.since = 0
    /\ \E t \in Threads :
          /\ threads[t].pc = "writing"
          /\ threads[t].k >= 1
          /\ threads[t].steps[threads[t].k].wallets[LockUser]
                # wallets[LockUser]

\* The payload the cache holds for the prompt of the last
\* parse_expense_input call, decoded: None when there is no entry or the
\* entry's text is not JSON.
Decodable(cache, c) ==
    LET key == _hash_value(_build_expense_prompt(c.input_text, c.today_date))
    IN  IF key \in DOMAIN cache THEN loads(cache[key]) ELSE None

(***************************************************************************)
(* C29  parse_expense_input of a client that has a model: when the cache   *)
(* holds a decodable payload for the built prompt, the model is not called *)
(* and the decoded payload is returned; the model is called only when it   *)
(* holds none; and the cache is written only with a dict that was          *)
(* extracted from the reply and has a payment_method of 'UPI' or 'Cash'.   *)
(* A client without a model returns None, calls nothing and writes         *)
(* nothing, whatever the cache holds.                                      *)
(***************************************************************************)
C29_CacheBeforeModel ==
    [][ret'.op = "parse_expense_input" =>
        LET hit == Decodable(gemini_cache, call') # None
        IN  /\ (model # None /\ hit) =>
                  /\ ~call'.called
                  /\ result' = Decodable(gemini_cache, call')
            /\ call'.called => (model # None /\ ~hit)
            /\ gemini_cache' # gemini_cache =>
                  /\ call'.called
                  /\ call'.reply \in {"{valid}", "json: {valid}"}
                  /\ result' = {ValidData}
                  /\ Decodable(gemini_cache', call') = {ValidData}
                  /\ \A k \in DOMAIN gemini_cache :
                        k # _hash_value(_build_expense_prompt(
                                call'.input_text, call'.today_date))
                        => k \in DOMAIN gemini_cache'
                           /\ gemini_cache'[k] = gemini_cache[k]
            /\ model = None =>
                  /\ result' = None
                  /\ gemini_cache' = gemini_cache]_vars

\* A call has been answered from the cache, the entry being one that an
\* earlier call of this client wrote, without a call of the model.
C29_Witness ==
    /\ ret.op = "parse_expense_input"
    /\ model # None
    /\ ~call.called
    /\ call.today_date = "2024-01-02"
    /\ result = {ValidData}

\* C29 as stated: whenever the cache holds a decodable payload for the
\* prompt, the cached record is returned.  Violated by a client without a
\* model, which returns None before it looks at the cache.
C29_HitReturnsCached ==
    [][(ret'.op = "parse_expense_input"
        /\ Decodable(gemini_cache, call') # None) =>
        /\ ~call'.called
        /\ result' = Decodable(gemini_cache, call')]_vars

====
